---- MODULE Spec2Model ----
(***************************************************************************)
(* A model of the SFTP request handlers of internal/sftpd/handler.go and   *)
(* of the folder records of internal/vfs/folder.go.                        *)
(*                                                                         *)
(* Every handler is a sequence of steps, one step per call the handler     *)
(* makes to a collaborator (the base connection, the user, the backend     *)
(* filesystem, the pre-action hook, the quota store).  The collaborators   *)
(* are not part of the source: each answer they give is chosen when the    *)
(* handler asks for it, from every answer their contract allows.           *)
(***************************************************************************)
EXTENDS Integers, Sequences, FiniteSets, TLC

\* ------------------------------------------------------------------ bounds

\* Longest Users / Groups list of a folder record.
MaxLen == 2

\* ------------------------------------------------------------- value sets

\* The request the connection serves when requests come one at a time.
Requests == {1}

\* The requests in flight at once when the client pipelines them.
Pipelined == {1, 2}

\* Sizes of the file that exists at the resolved path.
FileSizes == {0, 500}

\* Virtual paths a request names (request.Filepath).
Paths == {"/", "/a"}

\* dataprovider.Perm* consulted by the handlers.
Perms == {"PermDownload", "PermUpload", "PermOverwrite", "PermListItems"}

\* Answers of User.IsFileAllowed: allowed, or denied with a deny policy.
FilePolicies == {"allow", "DenyPolicyDefault", "DenyPolicyHide"}

\* Raw errors of the backend filesystem (never a protocol error).
BackendErrors == {"ErrNotExist", "ErrPermission", "ErrBackendIO"}

\* The handlers the request server calls.
Handlers == {"Fileread", "Filewrite", "Filecmd", "Filelist", "Lstat",
             "Readlink", "RealPath", "StatVFS"}

\* request.Method of a Filecmd and of a Filelist request; "Link" and
\* "Readlink" are methods the two switches do not know.
FilecmdMethods == {"Setstat", "Rename", "Rmdir", "Mkdir", "Symlink", "Remove", "Link"}
FilelistMethods == {"List", "Stat", "Readlink"}

\* Scoping prefixes of a session ("" : the session is not scoped).
FolderPrefixes == {"", "/sub"}

\* Listings c.ListDir returns.
DirListings == {<<>>, <<"a">>, <<"..", "a">>}

\* Errors of common.ExecutePreAction: the hook's own reasons to refuse.
HookErrors == {"ErrHookDenied", "ErrHookTimeout"}

\* Errors of the base connection's own operations (ListDir, DoStat, Rename,
\* RemoveDir, CreateDir, CreateSymlink, SetStat, RemoveFile).
ConnErrors == {"ErrSSHFxNoSuchFile", "ErrSSHFxPermissionDenied", "ErrSSHFxFailure"}

\* request.AttrFlags() of a Setstat request.
AttrFlagSets == {{}, {"Permissions"}, {"Acmodtime", "Size"},
                 {"Permissions", "UidGid", "Acmodtime", "Size"}}

\* The unsigned 64 bit conversions wrap at 2^64 and the default quota size
\* is the used size plus 8TB.  The model checker's integers have 32 bits:
\* the model keeps the two numbers' order and scales them to 2^30 and 2^23.
Uint64Modulus == 1073741824
DefaultQuotaSize == 8388608
DefaultQuotaFiles == 1000000
InitialBlockSize == 4096
Namemax == 255

\* Size limits of a quota: none, and limits on either side of each block size
\* the statistics can report.
QuotaSizes == {0, 1, 3, 4, 16, 64, 255, 256, 1024, 4095, 5000}

\* vfs.QuotaCheckResult of c.HasSpace: with space, no configured limit is
\* reached.
QuotaResults ==
    {q \in [HasSpace : BOOLEAN, QuotaSize : QuotaSizes, QuotaFiles : {0, 10},
            UsedSize : {0, 100, 6000}, UsedFiles : {0, 20}] :
        q.HasSpace => /\ q.QuotaSize > 0 => q.UsedSize < q.QuotaSize
                      /\ q.QuotaFiles > 0 => q.UsedFiles < q.QuotaFiles}

NoQuotaResult == [HasSpace |-> TRUE, QuotaSize |-> 0, QuotaFiles |-> 0,
                  UsedSize |-> 0, UsedFiles |-> 0]

\* Remaining sizes c.GetMaxWriteSize reports (0: no limit).
MaxWriteSizes == {0, 1000}

\* Quota limits of a virtual folder (0: unlimited, -1: included in the user's).
FolderLimits == {-1, 0, 100}

\* Answers of User.GetVirtualFolderForPath: no folder, or a folder's limits.
NoFolder == [found |-> FALSE, QuotaSize |-> 0, QuotaFiles |-> 0]
VirtualFolders == {NoFolder} \cup
    [found : {TRUE}, QuotaSize : FolderLimits, QuotaFiles : FolderLimits]

\* sftp.FileOpenFlags of a write-open.
OpenFlags == [Read : BOOLEAN, Write : {TRUE}, Append : BOOLEAN,
              Creat : {TRUE}, Trunc : BOOLEAN, Excl : {FALSE}]

NoFlags == [Read |-> FALSE, Write |-> FALSE, Append |-> FALSE,
            Creat |-> FALSE, Trunc |-> FALSE, Excl |-> FALSE]

\* An entry of the backend: what fs.Lstat reports of it.
NoEntry == [kind |-> "none", size |-> 0]
Entries == {NoEntry, [kind |-> "dir", size |-> 0], [kind |-> "symlink", size |-> 0]}
             \cup {[kind |-> "file", size |-> s] : s \in FileSizes}

\* common.BaseTransfer as built by common.NewBaseTransfer.
NoTransfer == [direction |-> "none", fsPath |-> "none", effectiveFsPath |-> "none",
               minWriteOffset |-> 0, initialSize |-> 0, maxWriteSize |-> 0,
               truncatedSize |-> 0, isNewFile |-> FALSE, errForRead |-> "nil"]

VARIABLES
    folderPrefix,   \* Connection.folderPrefix
    clock,          \* requests received so far (the time of the connection)
    lastActivity,   \* BaseConnection's last-activity time
    userPerms,      \* permissions of c.User on the directories of the session
    files,          \* the backend: entry at the resolved and at the staging path
    usedQuota,      \* used quota size of the virtual folder and of the user
    updates,        \* quota updates each request has issued, in order
    pc,             \* position of each request in its handler
    req,            \* the sftp.Request
    loc,            \* local variables of the handler
    ret,            \* what the handler returned
    calls,          \* collaborator calls each request has made, in order
    heap,           \* the backing arrays of the slices, by address
    orig,           \* a vfs.VirtualFolder; its slices are addresses of heap
    copy,           \* the folder a GetACopy returned, once one has
    shadow          \* the lists orig and copy hold if no write to one reaches the other

vars == <<folderPrefix, clock, lastActivity, userPerms, files, usedQuota, updates,
          pc, req, loc, ret, calls, heap, orig, copy, shadow>>

folderVars == <<heap, orig, copy, shadow>>
envVars == <<folderPrefix, userPerms, folderVars>>
connVars == <<clock, lastActivity>>
quotaVars == <<usedQuota, updates>>

\* -------------------------------------------------------------- helpers

\* Names of users and groups.
Names == {"u1", "u2"}

\* The lists of at most n names.
RECURSIVE ListsUpTo(_)
ListsUpTo(n) ==
    IF n = 0 THEN {<<>>}
    ELSE LET shorter == ListsUpTo(n - 1)
         IN  shorter \cup {Append(l, x) : l \in {m \in shorter : Len(m) = n - 1},
                                           x \in Names}

NoBaseFolder == [ID |-> 0, Name |-> "", MappedPath |-> "", Description |-> "",
                 UsedQuotaSize |-> 0, UsedQuotaFiles |-> 0, LastQuotaUpdate |-> 0,
                 Users |-> 0, Groups |-> 0, FsConfig |-> 0]

NoVirtualFolder == [Base |-> NoBaseFolder, VirtualPath |-> "", QuotaSize |-> 0,
                    QuotaFiles |-> 0]

\* path.Dir of a cleaned virtual path: every path of Paths lies in the root.
PathDir(p) == "/"

\* c.User.HasPerm(perm, dir)
HasPerm(perm, dir) == <<perm, dir>> \in userPerms

NoRequest == [handler |-> "none", Method |-> "none", Filepath |-> "/",
              Pflags |-> NoFlags]

\* The capabilities of the backend a handler has probed.
NoCaps == [atomicUpload |-> FALSE, openRW |-> FALSE, uploadResume |-> FALSE,
           truncate |-> FALSE]

\* sftp.StatVFS
NoStatVFS == [Bsize |-> 0, Frsize |-> 0, Blocks |-> 0, Bfree |-> 0, Bavail |-> 0,
              Files |-> 0, Ffree |-> 0, Favail |-> 0, Namemax |-> 0]

\* Statistics fs.GetAvailableDiskSize reports.
BackendStats ==
    {[Bsize |-> 4096, Frsize |-> 4096, Blocks |-> 2, Bfree |-> 1, Bavail |-> 1,
      Files |-> 50, Ffree |-> 40, Favail |-> 40, Namemax |-> 255],
     [Bsize |-> 512, Frsize |-> 1, Blocks |-> 50, Bfree |-> 50, Bavail |-> 50,
      Files |-> 5, Ffree |-> 5, Favail |-> 5, Namemax |-> 100],
     [Bsize |-> 4096, Frsize |-> 4096, Blocks |-> 0, Bfree |-> 0, Bavail |-> 0,
      Files |-> 0, Ffree |-> 0, Favail |-> 0, Namemax |-> 255]}

\* Results of fs.GetAvailableDiskSize: statistics, or an error.
AvailableDiskSizes ==
    [err : {"nil"}, stats : BackendStats]
    \cup [err : {"ErrStorageSizeUnavailable", "ErrBackendIO"}, stats : {NoStatVFS}]

\* No call of fs.GetAvailableDiskSize was made.
NoAvailableDiskSize == [err |-> "none", stats |-> NoStatVFS]

NoLocals == [policy |-> "allow", configAtomic |-> FALSE, fs |-> NoCaps,
             filePath |-> "resolved", errForRead |-> "nil",
             stat |-> NoEntry, statErr |-> "nil",
             osFlags |-> {}, isResume |-> FALSE, maxWriteSize |-> 0,
             vfolder |-> NoFolder, target |-> "", targetPolicy |-> "allow",
             quotaResult |-> NoQuotaResult, attrs |-> {},
             diskHasSpace |-> FALSE, hasUploadSpace |-> FALSE,
             dirEntries |-> <<>>, avail |-> NoAvailableDiskSize,
             s |-> NoAvailableDiskSize, result |-> "none",
             hookErr |-> "none", hasDownloadSpace |-> FALSE]

NoReturn == [err |-> "pending", transfer |-> NoTransfer, files |-> <<>>,
             str |-> "", statvfs |-> NoStatVFS]

Called(r, fn) == \E i \in 1..Len(calls[r]) : calls[r][i].fn = fn

CallCount(r, fn) == Cardinality({i \in 1..Len(calls[r]) : calls[r][i].fn = fn})

\* The collaborator call fn(arg) is made by request r.
Call(r, fn, arg) == calls' = [calls EXCEPT ![r] = Append(@, [fn |-> fn, arg |-> arg])]

Goto(r, label) == pc' = [pc EXCEPT ![r] = label]

\* The handler returns err (and no value).
ReturnErr(r, err) ==
    /\ pc' = [pc EXCEPT ![r] = "done"]
    /\ ret' = [ret EXCEPT ![r].err = err]

\* c.GetFsError(fs, err): the backend-error-to-protocol-error mapping.
GetFsError(err) ==
    CASE err = "ErrNotExist" -> "ErrSSHFxNoSuchFile"
      [] err = "ErrPermission" -> "ErrSSHFxPermissionDenied"
      [] OTHER -> "ErrSSHFxFailure"

\* getOSOpenFlags: the os.O_* bits as a set of their names.
getOSOpenFlags(requestFlags) ==
    (IF requestFlags.Read /\ requestFlags.Write THEN {"O_RDWR"}
     ELSE IF requestFlags.Write THEN {"O_WRONLY"} ELSE {})
    \cup (IF requestFlags.Creat THEN {"O_CREATE"} ELSE {})
    \cup (IF requestFlags.Trunc THEN {"O_TRUNC"} ELSE {})
    \cup (IF requestFlags.Excl THEN {"O_EXCL"} ELSE {})

\* ------------------------------------------------------------------ Init

\* A folder record whose Users and Groups lists are among lists.
InitFolder(lists) ==
    /\ \E users \in lists, groups \in lists :
         /\ heap = <<users, groups, <<"provider">> >>
         /\ shadow = [orig |-> [Users |-> users, Groups |-> groups],
                      copy |-> [Users |-> <<>>, Groups |-> <<>>]]
    /\ orig = [Base |-> [ID |-> 7, Name |-> "f", MappedPath |-> "/mnt/f",
                         Description |-> "d", UsedQuotaSize |-> 500,
                         UsedQuotaFiles |-> 1, LastQuotaUpdate |-> 3,
                         Users |-> 1, Groups |-> 2, FsConfig |-> 3],
               VirtualPath |-> "/v", QuotaSize |-> 100, QuotaFiles |-> -1]
    /\ copy = [kind |-> "none", folder |-> NoVirtualFolder]

\* The connection after construction, for a session scoped to one of
\* prefixes, a user with one of permSets and a backend with one of entries
\* at the resolved path.
InitConnection(prefixes, permSets, entries) ==
    /\ folderPrefix \in prefixes
    /\ clock = 0
    /\ lastActivity = 0
    /\ userPerms \in {ps \X {"/"} : ps \in permSets}
    /\ \E e \in entries : files = [resolved |-> e, staging |-> NoEntry]
    /\ usedQuota = [folder |-> files.resolved.size, user |-> files.resolved.size]
    /\ updates = [r \in Pipelined |-> <<>>]
    /\ pc = [r \in Pipelined |-> "idle"]
    /\ req = [r \in Pipelined |-> NoRequest]
    /\ loc = [r \in Pipelined |-> NoLocals]
    /\ ret = [r \in Pipelined |-> NoReturn]
    /\ calls = [r \in Pipelined |-> <<>>]

\* folderPrefix is read by Filelist alone: the specifications of the other
\* handlers start from a session that is not scoped.
Init == InitConnection({""}, SUBSET Perms, Entries) /\ InitFolder({<<"u1">>})

InitScoped ==
    InitConnection(FolderPrefixes, SUBSET Perms, Entries) /\ InitFolder({<<"u1">>})

\* ------------------------------------------------------------ the server

\* The request server hands a decoded request to one of the handlers hs.
Dispatch(r, hs) ==
    /\ pc[r] = "idle"
    /\ \E h \in hs, p \in Paths :
         \E m \in CASE h = "Filecmd" -> FilecmdMethods
                    [] h = "Filelist" -> FilelistMethods
                    [] OTHER -> {h} :
           \E fl \in IF h = "Filewrite" THEN OpenFlags ELSE {NoFlags} :
             /\ h \in {"Fileread", "Filewrite", "Readlink"} => p # "/"
             /\ req' = [req EXCEPT ![r] = [handler |-> h, Method |-> m,
                                           Filepath |-> p, Pflags |-> fl]]
             /\ pc' = [pc EXCEPT ![r] = IF h = "Filewrite" THEN "handleFilewrite"
                                        ELSE h]
    /\ clock' = clock + 1
    /\ UNCHANGED <<lastActivity, envVars, files, quotaVars, loc, ret, calls>>

\* c.UpdateLastActivity()
UpdateLastActivity(r) ==
    /\ lastActivity' = clock
    /\ UNCHANGED clock

\* A refusal that hands the hook's own error on.
PreActionDeniedRaw(hookErr) == hookErr

\* handler.go:96-99, 404-407 and 453-456: the error of an open the hook
\* refused with hookErr is c.GetPermissionDeniedError().
PreActionDenied(hookErr) == "ErrSSHFxPermissionDenied"

\* -------------------------------------------------- handleFilewrite

\* handler.go:125
handleFilewrite_UpdateLastActivity(r) ==
    /\ pc[r] = "handleFilewrite"
    /\ UpdateLastActivity(r)
    /\ Call(r, "UpdateLastActivity", "")
    /\ Goto(r, "hf_IsFileAllowed")
    /\ UNCHANGED <<envVars, files, quotaVars, req, loc, ret>>

\* handler.go:127-130: any denial is a permission error, whatever the policy.
handleFilewrite_IsFileAllowed(r) ==
    /\ pc[r] = "hf_IsFileAllowed"
    /\ Call(r, "IsFileAllowed", req[r].Filepath)
    /\ \E policy \in FilePolicies :
         /\ loc' = [loc EXCEPT ![r].policy = policy]
         /\ IF policy # "allow"
              THEN ReturnErr(r, "ErrSSHFxPermissionDenied")
              ELSE Goto(r, "hf_Resolve") /\ UNCHANGED ret
    /\ UNCHANGED <<connVars, envVars, files, quotaVars, req>>

\* handler.go:132-135
handleFilewrite_GetFsAndResolvedPath(r) ==
    /\ pc[r] = "hf_Resolve"
    /\ Call(r, "GetFsAndResolvedPath", req[r].Filepath)
    /\ \/ ReturnErr(r, "ErrResolve")
       \/ Goto(r, "hf_AtomicPath") /\ UNCHANGED ret
    /\ UNCHANGED <<connVars, envVars, files, quotaVars, req, loc>>

\* A staging decision that looks at the global policy alone.
AtomicUploadConfigOnly(configEnabled, fsSupported) == configEnabled

\* handler.go:137-140: filePath is the staging path when the global policy
\* and the backend's capability are both active.
AtomicUploadActive(configEnabled, fsSupported) == configEnabled /\ fsSupported

handleFilewrite_AtomicPath(r) ==
    /\ pc[r] = "hf_AtomicPath"
    /\ \E configEnabled \in BOOLEAN, fsSupported \in BOOLEAN :
         loc' = [loc EXCEPT ![r].configAtomic = configEnabled,
                            ![r].fs.atomicUpload = fsSupported,
                            ![r].filePath =
                                IF AtomicUploadActive(configEnabled, fsSupported)
                                  THEN "staging" ELSE "resolved"]
    /\ Goto(r, "hf_ErrForRead")
    /\ UNCHANGED <<connVars, envVars, files, quotaVars, req, ret, calls>>

\* A deferred error that asks for the download permission only of an open
\* that requested read access.
ErrForReadOnRead(rwSupport, read, hasDownload) ==
    IF read /\ ~hasDownload THEN "ErrPermission"
    ELSE IF ~rwSupport /\ read THEN "ErrSSHFxOpUnsupported"
    ELSE "nil"

\* handler.go:142-152
ErrForRead(rwSupport, read, hasDownload) ==
    IF ~hasDownload THEN "ErrPermission"
    ELSE IF ~rwSupport /\ read THEN "ErrSSHFxOpUnsupported"
    ELSE "nil"

handleFilewrite_ErrForRead(r) ==
    /\ pc[r] = "hf_ErrForRead"
    /\ \E rwSupport \in BOOLEAN :
         loc' = [loc EXCEPT ![r].fs.openRW = rwSupport,
                            ![r].errForRead =
                   ErrForRead(rwSupport, req[r].Pflags.Read,
                              HasPerm("PermDownload", PathDir(req[r].Filepath)))]
    /\ Call(r, "HasPerm", "PermDownload")
    /\ Goto(r, "hf_Lstat")
    /\ UNCHANGED <<connVars, envVars, files, quotaVars, req, ret>>

\* handler.go:154: the backend reports the entry at the resolved path, or fails.
handleFilewrite_Lstat(r) ==
    /\ pc[r] = "hf_Lstat"
    /\ Call(r, "Lstat", "resolved")
    /\ \/ /\ files.resolved.kind # "none"
          /\ loc' = [loc EXCEPT ![r].stat = files.resolved, ![r].statErr = "nil"]
       \/ /\ files.resolved.kind = "none"
          /\ loc' = [loc EXCEPT ![r].statErr = "ErrNotExist"]
       \/ \E e \in BackendErrors \ {"ErrNotExist"} :
            loc' = [loc EXCEPT ![r].statErr = e]
    /\ Goto(r, "hf_Branch")
    /\ UNCHANGED <<connVars, envVars, files, quotaVars, req, ret>>

\* handler.go:155-177: the branch the lstat result selects.
UploadBranch(stat, statErr) ==
    IF (statErr = "nil" /\ stat.kind = "symlink") \/ statErr = "ErrNotExist"
      THEN "CreateNew"
    ELSE IF statErr # "nil" THEN "StatError"
    ELSE IF stat.kind = "dir" THEN "Directory"
    ELSE "Overwrite"

\* A check that asks for the upload permission on every branch.
BranchPermUploadOnly(branch) == "PermUpload"

\* The permission each branch requires on the parent directory.
BranchPerm(branch) == IF branch = "CreateNew" THEN "PermUpload" ELSE "PermOverwrite"

handleFilewrite_Branch(r) ==
    /\ pc[r] = "hf_Branch"
    /\ LET branch == UploadBranch(loc[r].stat, loc[r].statErr)
           allowed == HasPerm(BranchPerm(branch), PathDir(req[r].Filepath))
       IN  CASE branch = "StatError" ->
                  ReturnErr(r, GetFsError(loc[r].statErr)) /\ UNCHANGED calls
             [] branch = "Directory" ->
                  ReturnErr(r, "ErrSSHFxOpUnsupported") /\ UNCHANGED calls
             [] OTHER ->
                  /\ Call(r, "HasPerm", BranchPerm(branch))
                  /\ IF ~allowed
                       THEN ReturnErr(r, "ErrSSHFxPermissionDenied")
                       ELSE /\ Goto(r, IF branch = "CreateNew"
                                         THEN "handleSFTPUploadToNewFile"
                                         ELSE "handleSFTPUploadToExistingFile")
                            /\ UNCHANGED ret
    /\ UNCHANGED <<connVars, envVars, files, quotaVars, req, loc>>

\* ------------------------------------------- handleSFTPUploadToNewFile

\* handler.go:399 and 432: the quota gate of a write-open.
\* A gate that lets every upload through.
QuotaDeniesNever(diskHasSpace, hasUploadSpace) == FALSE

\* A gate that consults the disk quota alone.
QuotaDeniesDiskOnly(diskHasSpace, hasUploadSpace) == ~diskHasSpace

QuotaDenies(diskHasSpace, hasUploadSpace) == ~diskHasSpace \/ ~hasUploadSpace

\* handler.go:398-402
handleSFTPUploadToNewFile_HasSpace(r) ==
    /\ pc[r] = "handleSFTPUploadToNewFile"
    /\ Call(r, "HasSpace", "isNewFile=true")
    /\ \E diskHasSpace \in BOOLEAN, hasUploadSpace \in BOOLEAN :
         /\ loc' = [loc EXCEPT ![r].diskHasSpace = diskHasSpace,
                               ![r].hasUploadSpace = hasUploadSpace]
         /\ IF QuotaDenies(diskHasSpace, hasUploadSpace)
              THEN ReturnErr(r, "QuotaExceeded")
              ELSE Goto(r, "nf_PreAction") /\ UNCHANGED ret
    /\ UNCHANGED <<connVars, envVars, files, quotaVars, req>>

\* handler.go:404-407
handleSFTPUploadToNewFile_PreAction(r) ==
    /\ pc[r] = "nf_PreAction"
    /\ Call(r, "ExecutePreAction", "OperationPreUpload")
    /\ \/ \E e \in HookErrors :
            /\ loc' = [loc EXCEPT ![r].hookErr = e]
            /\ ReturnErr(r, PreActionDenied(e))
       \/ /\ loc' = [loc EXCEPT ![r].hookErr = "nil"]
          /\ Goto(r, "nf_Create")
          /\ UNCHANGED ret
    /\ UNCHANGED <<connVars, envVars, files, quotaVars, req>>

\* fs.Create(name, flags): the entry at name after a successful create.
Created(entry, osFlags) ==
    IF entry.kind = "none" \/ (entry.kind = "file" /\ "O_TRUNC" \in osFlags)
      THEN [kind |-> "file", size |-> 0]
      ELSE entry

\* handler.go:409-414
handleSFTPUploadToNewFile_Create(r) ==
    /\ pc[r] = "nf_Create"
    /\ Call(r, "Create", loc[r].filePath)
    /\ LET osFlags == getOSOpenFlags(req[r].Pflags) IN
       \/ \E e \in BackendErrors :
            /\ ReturnErr(r, GetFsError(e))
            /\ UNCHANGED <<files, loc>>
       \/ /\ files' = [files EXCEPT ![loc[r].filePath] = Created(@, osFlags)]
          /\ loc' = [loc EXCEPT ![r].osFlags = osFlags]
          /\ Goto(r, "nf_Transfer")
          /\ UNCHANGED ret
    /\ UNCHANGED <<connVars, envVars, quotaVars, req>>

\* handler.go:416-425
handleSFTPUploadToNewFile_Transfer(r) ==
    /\ pc[r] = "nf_Transfer"
    /\ Call(r, "NewBaseTransfer", "TransferUpload")
    /\ \E maxWriteSize \in MaxWriteSizes :
         ret' = [ret EXCEPT ![r].err = "nil",
                    ![r].transfer = [direction |-> "TransferUpload",
                                  fsPath |-> "resolved",
                                  effectiveFsPath |-> loc[r].filePath,
                                  minWriteOffset |-> 0, initialSize |-> 0,
                                  maxWriteSize |-> maxWriteSize,
                                  truncatedSize |-> 0, isNewFile |-> TRUE,
                                  errForRead |-> loc[r].errForRead]]
    /\ Goto(r, "done")
    /\ UNCHANGED <<connVars, envVars, files, quotaVars, req, loc>>

\* -------------------------------------- handleSFTPUploadToExistingFile

\* handler.go:431-435
handleSFTPUploadToExistingFile_HasSpace(r) ==
    /\ pc[r] = "handleSFTPUploadToExistingFile"
    /\ Call(r, "HasSpace", "isNewFile=false")
    /\ \E diskHasSpace \in BOOLEAN, hasUploadSpace \in BOOLEAN :
         /\ loc' = [loc EXCEPT ![r].diskHasSpace = diskHasSpace,
                               ![r].hasUploadSpace = hasUploadSpace]
         /\ IF QuotaDenies(diskHasSpace, hasUploadSpace)
              THEN ReturnErr(r, "QuotaExceeded")
              ELSE Goto(r, "ef_MaxWriteSize") /\ UNCHANGED ret
    /\ UNCHANGED <<connVars, envVars, files, quotaVars, req>>

\* handler.go:439-442: an upload resume is supposed when O_TRUNC is not set.
\* A choice that never resumes.
IsResumeNever(osFlags) == FALSE

\* handler.go:439-442: without the truncate flag the open is a resume.
IsResume(osFlags) == ~("O_TRUNC" \in osFlags)

\* handler.go:437-451: c.GetMaxWriteSize gives the remaining size or an error.
handleSFTPUploadToExistingFile_MaxWriteSize(r) ==
    /\ pc[r] = "ef_MaxWriteSize"
    /\ Call(r, "GetMaxWriteSize", "")
    /\ LET osFlags == getOSOpenFlags(req[r].Pflags) IN
       \/ \E maxWriteSize \in MaxWriteSizes :
            /\ loc' = [loc EXCEPT ![r].osFlags = osFlags,
                                  ![r].isResume = IsResume(osFlags),
                                  ![r].maxWriteSize = maxWriteSize]
            /\ Goto(r, "ef_PreAction")
            /\ UNCHANGED ret
       \/ \E e \in {"ErrSSHFxOpUnsupported", "QuotaExceeded"} :
            /\ loc' = [loc EXCEPT ![r].osFlags = osFlags,
                                  ![r].isResume = IsResume(osFlags)]
            /\ ReturnErr(r, e)
    /\ UNCHANGED <<connVars, envVars, files, quotaVars, req>>

\* handler.go:453-456
handleSFTPUploadToExistingFile_PreAction(r) ==
    /\ pc[r] = "ef_PreAction"
    /\ Call(r, "ExecutePreAction", "OperationPreUpload")
    /\ \/ \E e \in HookErrors :
            /\ loc' = [loc EXCEPT ![r].hookErr = e]
            /\ ReturnErr(r, PreActionDenied(e))
       \/ /\ loc' = [loc EXCEPT ![r].hookErr = "nil"]
          /\ Goto(r, "ef_Rename")
          /\ UNCHANGED ret
    /\ UNCHANGED <<connVars, envVars, files, quotaVars, req>>

\* handler.go:458-465: the existing file is moved to the staging path.
handleSFTPUploadToExistingFile_Rename(r) ==
    /\ pc[r] = "ef_Rename"
    /\ IF AtomicUploadActive(loc[r].configAtomic, loc[r].fs.atomicUpload)
         THEN /\ Call(r, "Rename", "resolved")
              /\ \/ \E e \in BackendErrors :
                      /\ loc' = [loc EXCEPT ![r].result = e]
                      /\ ReturnErr(r, GetFsError(e))
                      /\ UNCHANGED files
                 \/ /\ files' = [resolved |-> NoEntry, staging |-> files.resolved]
                    /\ loc' = [loc EXCEPT ![r].result = "nil"]
                    /\ Goto(r, "ef_Create")
                    /\ UNCHANGED ret
         ELSE /\ Goto(r, "ef_Create")
              /\ UNCHANGED <<files, ret, calls, loc>>
    /\ UNCHANGED <<connVars, envVars, quotaVars, req>>

\* handler.go:467-472
handleSFTPUploadToExistingFile_Create(r) ==
    /\ pc[r] = "ef_Create"
    /\ Call(r, "Create", loc[r].filePath)
    /\ \/ \E e \in BackendErrors :
            /\ ReturnErr(r, GetFsError(e))
            /\ UNCHANGED files
       \/ /\ files' = [files EXCEPT ![loc[r].filePath] = Created(@, loc[r].osFlags)]
          /\ Goto(r, "ef_Sizes")
          /\ UNCHANGED ret
    /\ UNCHANGED <<connVars, envVars, quotaVars, req, loc>>

\* An inclusion test that one -1 limit satisfies.
IsIncludedInUserQuotaEither(v) == v.QuotaFiles = -1 \/ v.QuotaSize = -1

\* vfs/folder.go:241-243
IsIncludedInUserQuota(v) == v.QuotaFiles = -1 /\ v.QuotaSize = -1

\* A truncation that also takes the file off the file count.
updateQuotaAfterTruncateCounted(vfolder, fileSize) ==
    LET debit(target) ==
          [target |-> target, files |-> -1, size |-> -fileSize, reset |-> FALSE]
    IN  IF vfolder.found
          THEN IF vfolder.QuotaFiles = -1 /\ vfolder.QuotaSize = -1
                 THEN <<debit("folder"), debit("user")>>
                 ELSE <<debit("folder")>>
          ELSE <<debit("user")>>

\* A truncation that debits the folder alone, whatever its quota settings.
updateQuotaAfterTruncateFolderOnly(vfolder, fileSize) ==
    <<[target |-> IF vfolder.found THEN "folder" ELSE "user",
       files |-> 0, size |-> -fileSize, reset |-> FALSE]>>

\* handler.go:558-568: the quota updates issued for a truncated file.
updateQuotaAfterTruncate(vfolder, fileSize) ==
    LET debit(target) ==
          [target |-> target, files |-> 0, size |-> -fileSize, reset |-> FALSE]
    IN  IF vfolder.found
          THEN IF IsIncludedInUserQuota(vfolder)
                 THEN <<debit("folder"), debit("user")>>
                 ELSE <<debit("folder")>>
          ELSE <<debit("user")>>

\* dataprovider.UpdateVirtualFolderQuota / UpdateUserQuota: the used size
\* after the updates ups are applied in order.
RECURSIVE ApplyUpdates(_, _)
ApplyUpdates(used, ups) ==
    IF ups = <<>> THEN used
    ELSE ApplyUpdates([used EXCEPT ![Head(ups).target] = @ + Head(ups).size],
                      Tail(ups))

\* Sizes whose minimum write offset follows the append flag alone.
ExistingFileSizesAppendOnly(isResume, append, resumeSupported, truncateSupport, fileSize) ==
    IF isResume
      THEN [minWriteOffset |-> IF append THEN fileSize ELSE 0,
            initialSize |-> fileSize, truncatedSize |-> 0, debit |-> FALSE]
    ELSE IF truncateSupport
      THEN [minWriteOffset |-> 0, initialSize |-> 0, truncatedSize |-> 0,
            debit |-> TRUE]
      ELSE [minWriteOffset |-> 0, initialSize |-> fileSize,
            truncatedSize |-> fileSize, debit |-> FALSE]

\* handler.go:438 and 474-492: the sizes of the transfer, and whether the
\* truncation is debited when the file is opened.
ExistingFileSizes(isResume, append, resumeSupported, truncateSupport, fileSize) ==
    IF isResume
      THEN [minWriteOffset |-> IF append \/ ~resumeSupported THEN fileSize ELSE 0,
            initialSize |-> fileSize, truncatedSize |-> 0, debit |-> FALSE]
    ELSE IF truncateSupport
      THEN [minWriteOffset |-> 0, initialSize |-> 0, truncatedSize |-> 0,
            debit |-> TRUE]
      ELSE [minWriteOffset |-> 0, initialSize |-> fileSize,
            truncatedSize |-> fileSize, debit |-> FALSE]

\* c.User.GetVirtualFolderForPath(path.Dir(requestPath)): the requests of a
\* connection name the same file, so the folder one of them was given is the
\* folder of the others.
FoldersFor(r) ==
    LET given == {loc[o].vfolder : o \in {o \in Pipelined \ {r} : updates[o] # <<>>}}
    IN  IF given = {} THEN VirtualFolders ELSE given

\* handler.go:474-500
handleSFTPUploadToExistingFile_Transfer(r) ==
    /\ pc[r] = "ef_Sizes"
    /\ Call(r, "NewBaseTransfer", "TransferUpload")
    /\ \E resumeSupported \in BOOLEAN, truncateSupport \in BOOLEAN :
         LET fileSize == loc[r].stat.size
             sz == ExistingFileSizes(loc[r].isResume, req[r].Pflags.Append,
                                     resumeSupported, truncateSupport, fileSize)
         IN  /\ \E vfolder \in IF sz.debit THEN FoldersFor(r) ELSE {NoFolder} :
                  LET ups == IF sz.debit
                               THEN updateQuotaAfterTruncate(vfolder, fileSize)
                               ELSE <<>>
                  IN  /\ loc' = [loc EXCEPT ![r].fs.uploadResume = resumeSupported,
                                            ![r].fs.truncate = truncateSupport,
                                            ![r].vfolder = vfolder]
                      /\ updates' = [updates EXCEPT ![r] = @ \o ups]
                      /\ usedQuota' = ApplyUpdates(usedQuota, ups)
             /\ ret' = [ret EXCEPT ![r].err = "nil",
                    ![r].transfer = [direction |-> "TransferUpload",
                                  fsPath |-> "resolved",
                                  effectiveFsPath |-> loc[r].filePath,
                                  minWriteOffset |-> sz.minWriteOffset,
                                  initialSize |-> sz.initialSize,
                                  maxWriteSize |-> loc[r].maxWriteSize,
                                  truncatedSize |-> sz.truncatedSize,
                                  isNewFile |-> FALSE,
                                  errForRead |-> loc[r].errForRead]]
    /\ Goto(r, "done")
    /\ UNCHANGED <<connVars, envVars, files, req>>

handleFilewrite(r) ==
    \/ handleFilewrite_UpdateLastActivity(r)
    \/ handleFilewrite_IsFileAllowed(r)
    \/ handleFilewrite_GetFsAndResolvedPath(r)
    \/ handleFilewrite_AtomicPath(r)
    \/ handleFilewrite_ErrForRead(r)
    \/ handleFilewrite_Lstat(r)
    \/ handleFilewrite_Branch(r)
    \/ handleSFTPUploadToNewFile_HasSpace(r)
    \/ handleSFTPUploadToNewFile_PreAction(r)
    \/ handleSFTPUploadToNewFile_Create(r)
    \/ handleSFTPUploadToNewFile_Transfer(r)
    \/ handleSFTPUploadToExistingFile_HasSpace(r)
    \/ handleSFTPUploadToExistingFile_MaxWriteSize(r)
    \/ handleSFTPUploadToExistingFile_PreAction(r)
    \/ handleSFTPUploadToExistingFile_Rename(r)
    \/ handleSFTPUploadToExistingFile_Create(r)
    \/ handleSFTPUploadToExistingFile_Transfer(r)

\* --------------------------------------------------------- Fileread

\* handler.go:75
Fileread_UpdateLastActivity(r) ==
    /\ pc[r] = "Fileread"
    /\ UpdateLastActivity(r)
    /\ Call(r, "UpdateLastActivity", "")
    /\ Goto(r, "fr_HasPerm")
    /\ UNCHANGED <<envVars, files, quotaVars, req, loc, ret>>

\* handler.go:77-79
Fileread_HasPerm(r) ==
    /\ pc[r] = "fr_HasPerm"
    /\ Call(r, "HasPerm", "PermDownload")
    /\ IF ~HasPerm("PermDownload", PathDir(req[r].Filepath))
         THEN ReturnErr(r, "ErrSSHFxPermissionDenied")
         ELSE Goto(r, "fr_Quota") /\ UNCHANGED ret
    /\ UNCHANGED <<connVars, envVars, files, quotaVars, req, loc>>

\* handler.go:80-84
Fileread_HasDownloadSpace(r) ==
    /\ pc[r] = "fr_Quota"
    /\ Call(r, "HasDownloadSpace", "")
    /\ \E hasDownloadSpace \in BOOLEAN :
         /\ loc' = [loc EXCEPT ![r].hasDownloadSpace = hasDownloadSpace]
         /\ IF ~hasDownloadSpace
              THEN ReturnErr(r, "ReadQuotaExceeded")
              ELSE Goto(r, "fr_IsFileAllowed") /\ UNCHANGED ret
    /\ UNCHANGED <<connVars, envVars, files, quotaVars, req>>

\* c.GetErrorForDeniedFile(policy)
GetErrorForDeniedFile(policy) ==
    IF policy = "DenyPolicyHide" THEN "ErrSSHFxNoSuchFile"
    ELSE "ErrSSHFxPermissionDenied"

\* A denial that answers permission-denied whatever the policy, as the
\* write-open does.
FilereadDeniedAsWrite(policy) == "ErrSSHFxPermissionDenied"

\* handler.go:86-89: the error of a read-open the file policy denies.
FilereadDenied(policy) == GetErrorForDeniedFile(policy)

Fileread_IsFileAllowed(r) ==
    /\ pc[r] = "fr_IsFileAllowed"
    /\ Call(r, "IsFileAllowed", req[r].Filepath)
    /\ \E policy \in FilePolicies :
         /\ loc' = [loc EXCEPT ![r].policy = policy]
         /\ IF policy # "allow"
              THEN ReturnErr(r, FilereadDenied(policy))
              ELSE Goto(r, "fr_Resolve") /\ UNCHANGED ret
    /\ UNCHANGED <<connVars, envVars, files, quotaVars, req>>

\* handler.go:91-94
Fileread_GetFsAndResolvedPath(r) ==
    /\ pc[r] = "fr_Resolve"
    /\ Call(r, "GetFsAndResolvedPath", req[r].Filepath)
    /\ \/ ReturnErr(r, "ErrResolve")
       \/ Goto(r, "fr_PreAction") /\ UNCHANGED ret
    /\ UNCHANGED <<connVars, envVars, files, quotaVars, req, loc>>

\* handler.go:96-99
Fileread_PreAction(r) ==
    /\ pc[r] = "fr_PreAction"
    /\ Call(r, "ExecutePreAction", "OperationPreDownload")
    /\ \/ \E e \in HookErrors :
            /\ loc' = [loc EXCEPT ![r].hookErr = e]
            /\ ReturnErr(r, PreActionDenied(e))
       \/ /\ loc' = [loc EXCEPT ![r].hookErr = "nil"]
          /\ Goto(r, "fr_Open")
          /\ UNCHANGED ret
    /\ UNCHANGED <<connVars, envVars, files, quotaVars, req>>

\* handler.go:101-111
Fileread_Open(r) ==
    /\ pc[r] = "fr_Open"
    /\ Call(r, "Open", "resolved")
    /\ \/ \E e \in BackendErrors :
            /\ files.resolved.kind = "none" => e = "ErrNotExist"
            /\ ReturnErr(r, GetFsError(e))
       \/ /\ files.resolved.kind # "none"
          /\ ret' = [ret EXCEPT ![r].err = "nil",
                    ![r].transfer = [direction |-> "TransferDownload",
                                  fsPath |-> "resolved",
                                  effectiveFsPath |-> "resolved",
                                  minWriteOffset |-> 0, initialSize |-> 0,
                                  maxWriteSize |-> 0,
                                  truncatedSize |-> 0, isNewFile |-> FALSE,
                                  errForRead |-> "nil"]]
          /\ Goto(r, "done")
    /\ UNCHANGED <<connVars, envVars, files, quotaVars, req, loc>>

Fileread(r) ==
    \/ Fileread_UpdateLastActivity(r)
    \/ Fileread_HasPerm(r)
    \/ Fileread_HasDownloadSpace(r)
    \/ Fileread_IsFileAllowed(r)
    \/ Fileread_GetFsAndResolvedPath(r)
    \/ Fileread_PreAction(r)
    \/ Fileread_Open(r)

\* --------------------------------------------------------- Readlink

\* handler.go:341-350: the error of canReadLink, "nil" when the link may be read.
canReadLink(hasListPerm, policy) ==
    IF ~hasListPerm THEN "ErrSSHFxPermissionDenied"
    ELSE IF policy = "DenyPolicyHide" THEN "ErrSSHFxNoSuchFile"
    ELSE "nil"

\* handler.go:247-249: Readlink starts with canReadLink(filePath).
Readlink_canReadLink(r) ==
    /\ pc[r] = "Readlink"
    /\ Call(r, "canReadLink", req[r].Filepath)
    /\ \E policy \in FilePolicies :
         LET err == canReadLink(HasPerm("PermListItems", PathDir(req[r].Filepath)),
                                policy)
         IN  /\ loc' = [loc EXCEPT ![r].policy = policy]
             /\ IF err # "nil" THEN ReturnErr(r, err)
                ELSE Goto(r, "rl_Resolve") /\ UNCHANGED ret
    /\ UNCHANGED <<connVars, envVars, files, quotaVars, req>>

\* handler.go:251-254
Readlink_GetFsAndResolvedPath(r) ==
    /\ pc[r] = "rl_Resolve"
    /\ Call(r, "GetFsAndResolvedPath", req[r].Filepath)
    /\ \/ ReturnErr(r, "ErrResolve")
       \/ Goto(r, "rl_Readlink") /\ UNCHANGED ret
    /\ UNCHANGED <<connVars, envVars, files, quotaVars, req, loc>>

\* handler.go:256-260: the backend gives the target of a symlink.
Readlink_Readlink(r) ==
    /\ pc[r] = "rl_Readlink"
    /\ Call(r, "Readlink", "resolved")
    /\ \/ \E e \in BackendErrors :
            /\ files.resolved.kind = "none" => e = "ErrNotExist"
            /\ ReturnErr(r, GetFsError(e))
            /\ UNCHANGED loc
       \/ /\ files.resolved.kind = "symlink"
          /\ \E s \in Paths : loc' = [loc EXCEPT ![r].target = s]
          /\ Goto(r, "rl_canReadTarget")
          /\ UNCHANGED ret
    /\ UNCHANGED <<connVars, envVars, files, quotaVars, req>>

\* handler.go:262-265
Readlink_canReadTarget(r) ==
    /\ pc[r] = "rl_canReadTarget"
    /\ Call(r, "canReadLink", loc[r].target)
    /\ \E policy \in IF loc[r].target = req[r].Filepath THEN {loc[r].policy}
                     ELSE FilePolicies :
         LET err == canReadLink(HasPerm("PermListItems", PathDir(loc[r].target)),
                                policy)
         IN  /\ loc' = [loc EXCEPT ![r].targetPolicy = policy]
             /\ IF err # "nil" THEN ReturnErr(r, err)
                ELSE /\ ret' = [ret EXCEPT ![r].err = "nil", ![r].str = loc[r].target]
                     /\ Goto(r, "done")
    /\ UNCHANGED <<connVars, envVars, files, quotaVars, req>>

Readlink(r) ==
    \/ Readlink_canReadLink(r)
    \/ Readlink_GetFsAndResolvedPath(r)
    \/ Readlink_Readlink(r)
    \/ Readlink_canReadTarget(r)

\* --------------------------------------------------------- Filelist

\* handler.go:215
Filelist_UpdateLastActivity(r) ==
    /\ pc[r] = "Filelist"
    /\ UpdateLastActivity(r)
    /\ Call(r, "UpdateLastActivity", "")
    /\ Goto(r, "fl_Switch")
    /\ UNCHANGED <<envVars, files, quotaVars, req, loc, ret>>

\* util.PrependFileInfo(files, info)
PrependFileInfo(fs, name) == <<name>> \o fs

\* A listing that looks at the path alone.
ListsParentNoPrefix(filepath, prefix) == filepath # "/"

\* handler.go:224: ".." is listed unless the root of an unscoped session is.
ListsParent(filepath, prefix) == filepath # "/" \/ prefix # ""

\* handler.go:223-228
ListEntries(fs, filepath, prefix) ==
    PrependFileInfo(IF ListsParent(filepath, prefix)
                      THEN PrependFileInfo(fs, "..") ELSE fs,
                    ".")

\* handler.go:218-228
Filelist_List(r) ==
    /\ pc[r] = "fl_Switch"
    /\ req[r].Method = "List"
    /\ Call(r, "ListDir", req[r].Filepath)
    /\ \/ \E e \in ConnErrors : ReturnErr(r, e) /\ UNCHANGED loc
       \/ \E fs \in DirListings :
            /\ loc' = [loc EXCEPT ![r].dirEntries = fs]
            /\ ret' = [ret EXCEPT ![r].err = "nil",
                         ![r].files = ListEntries(fs, req[r].Filepath, folderPrefix)]
            /\ Goto(r, "done")
    /\ UNCHANGED <<connVars, envVars, files, quotaVars, req>>

\* handler.go:229-232
Filelist_Stat(r) ==
    /\ pc[r] = "fl_Switch"
    /\ req[r].Method = "Stat"
    /\ Call(r, "HasPerm", "PermListItems")
    /\ IF ~HasPerm("PermListItems", PathDir(req[r].Filepath))
         THEN ReturnErr(r, "ErrSSHFxPermissionDenied")
         ELSE Goto(r, "fl_DoStat") /\ UNCHANGED ret
    /\ UNCHANGED <<connVars, envVars, files, quotaVars, req, loc>>

\* handler.go:234-239
Filelist_DoStat(r) ==
    /\ pc[r] = "fl_DoStat"
    /\ Call(r, "DoStat", req[r].Filepath)
    /\ \/ \E e \in ConnErrors : ReturnErr(r, e)
       \/ /\ ret' = [ret EXCEPT ![r].err = "nil", ![r].files = <<req[r].Filepath>>]
          /\ Goto(r, "done")
    /\ UNCHANGED <<connVars, envVars, files, quotaVars, req, loc>>

\* handler.go:240-241
Filelist_Default(r) ==
    /\ pc[r] = "fl_Switch"
    /\ req[r].Method \notin {"List", "Stat"}
    /\ ReturnErr(r, "ErrSSHFxOpUnsupported")
    /\ UNCHANGED <<connVars, envVars, files, quotaVars, req, loc, calls>>

Filelist(r) ==
    \/ Filelist_UpdateLastActivity(r)
    \/ Filelist_List(r)
    \/ Filelist_Stat(r)
    \/ Filelist_DoStat(r)
    \/ Filelist_Default(r)

\* ------------------------------------------------------------ Lstat

\* handler.go:270
Lstat_UpdateLastActivity(r) ==
    /\ pc[r] = "Lstat"
    /\ UpdateLastActivity(r)
    /\ Call(r, "UpdateLastActivity", "")
    /\ Goto(r, "ls_HasPerm")
    /\ UNCHANGED <<envVars, files, quotaVars, req, loc, ret>>

\* handler.go:272-274
Lstat_HasPerm(r) ==
    /\ pc[r] = "ls_HasPerm"
    /\ Call(r, "HasPerm", "PermListItems")
    /\ IF ~HasPerm("PermListItems", PathDir(req[r].Filepath))
         THEN ReturnErr(r, "ErrSSHFxPermissionDenied")
         ELSE Goto(r, "ls_DoStat") /\ UNCHANGED ret
    /\ UNCHANGED <<connVars, envVars, files, quotaVars, req, loc>>

\* handler.go:276-281
Lstat_DoStat(r) ==
    /\ pc[r] = "ls_DoStat"
    /\ Call(r, "DoStat", req[r].Filepath)
    /\ \/ \E e \in ConnErrors : ReturnErr(r, e)
       \/ /\ ret' = [ret EXCEPT ![r].err = "nil", ![r].files = <<req[r].Filepath>>]
          /\ Goto(r, "done")
    /\ UNCHANGED <<connVars, envVars, files, quotaVars, req, loc>>

Lstat(r) ==
    \/ Lstat_UpdateLastActivity(r)
    \/ Lstat_HasPerm(r)
    \/ Lstat_DoStat(r)

\* --------------------------------------------------------- RealPath

\* handler.go:286-288: RealPath starts with the permission check.
RealPath_HasPerm(r) ==
    /\ pc[r] = "RealPath"
    /\ Call(r, "HasPerm", "PermListItems")
    /\ IF ~HasPerm("PermListItems", PathDir(req[r].Filepath))
         THEN ReturnErr(r, "ErrSSHFxPermissionDenied")
         ELSE Goto(r, "rp_Resolve") /\ UNCHANGED ret
    /\ UNCHANGED <<connVars, envVars, files, quotaVars, req, loc>>

\* handler.go:290-298: the paths of Paths are clean and absolute, so that
\* util.CleanPath and util.CleanPathWithBase leave them as they are.
RealPath_GetFsAndResolvedPath(r) ==
    /\ pc[r] = "rp_Resolve"
    /\ Call(r, "GetFsAndResolvedPath", req[r].Filepath)
    /\ \/ ReturnErr(r, "ErrResolve")
       \/ Goto(r, "rp_RealPath") /\ UNCHANGED ret
    /\ UNCHANGED <<connVars, envVars, files, quotaVars, req, loc>>

\* handler.go:299-306: a backend that is a vfs.FsRealPather resolves the path.
RealPath_RealPath(r) ==
    /\ pc[r] = "rp_RealPath"
    /\ \/ /\ Call(r, "RealPath", "resolved")
          /\ \/ \E e \in BackendErrors : ReturnErr(r, GetFsError(e))
             \/ /\ ret' = [ret EXCEPT ![r].err = "nil", ![r].str = "/real"]
                /\ Goto(r, "done")
       \/ /\ ret' = [ret EXCEPT ![r].err = "nil", ![r].str = req[r].Filepath]
          /\ Goto(r, "done")
          /\ UNCHANGED calls
    /\ UNCHANGED <<connVars, envVars, files, quotaVars, req, loc>>

RealPath(r) ==
    \/ RealPath_HasPerm(r)
    \/ RealPath_GetFsAndResolvedPath(r)
    \/ RealPath_RealPath(r)

\* ---------------------------------------------------------- StatVFS

\* handler.go:311
StatVFS_UpdateLastActivity(r) ==
    /\ pc[r] = "StatVFS"
    /\ UpdateLastActivity(r)
    /\ Call(r, "UpdateLastActivity", "")
    /\ Goto(r, "sv_HasSpace")
    /\ UNCHANGED <<envVars, files, quotaVars, req, loc, ret>>

\* handler.go:317
StatVFS_HasSpace(r) ==
    /\ pc[r] = "sv_HasSpace"
    /\ Call(r, "HasSpace", "checkFiles=true")
    /\ \E q \in QuotaResults : loc' = [loc EXCEPT ![r].quotaResult = q]
    /\ Goto(r, "sv_Resolve")
    /\ UNCHANGED <<connVars, envVars, files, quotaVars, req, ret>>

\* handler.go:324-338: the statistics are the backend's own only when there
\* is space and no quota restriction.
UsesBackendStats(q) == q.HasSpace /\ q.QuotaSize = 0 /\ q.QuotaFiles = 0

\* handler.go:319-322
StatVFS_GetFsAndResolvedPath(r) ==
    /\ pc[r] = "sv_Resolve"
    /\ Call(r, "GetFsAndResolvedPath", req[r].Filepath)
    /\ \/ ReturnErr(r, "ErrResolve")
       \/ /\ Goto(r, IF UsesBackendStats(loc[r].quotaResult)
                       THEN "sv_GetAvailableDiskSize"
                       ELSE "sv_getStatVFSFromQuotaResult")
          /\ UNCHANGED ret
    /\ UNCHANGED <<connVars, envVars, files, quotaVars, req, loc>>

\* handler.go:328-335
StatVFS_GetAvailableDiskSize(r) ==
    /\ pc[r] = "sv_GetAvailableDiskSize"
    /\ Call(r, "GetAvailableDiskSize", "resolved")
    /\ \E avail \in AvailableDiskSizes :
         /\ loc' = [loc EXCEPT ![r].avail = avail]
         /\ IF avail.err = "ErrStorageSizeUnavailable"
              THEN Goto(r, "sv_getStatVFSFromQuotaResult") /\ UNCHANGED ret
              ELSE /\ ret' = [ret EXCEPT ![r].err = avail.err,
                                         ![r].statvfs = avail.stats]
                   /\ Goto(r, "done")
    /\ UNCHANGED <<connVars, envVars, files, quotaVars, req>>

\* uint64(x) of a signed x
U64(x) == x % Uint64Modulus

\* (*StatVFS).TotalSpace()
TotalSpace(s) == s.Frsize * s.Blocks

\* A block size that is never divided.
BlockSizeUndivided(bsize, quotaSize) == bsize

\* handler.go:532-535
RECURSIVE BlockSize(_, _)
BlockSize(bsize, quotaSize) ==
    IF bsize > quotaSize THEN BlockSize(bsize \div 4, quotaSize) ELSE bsize

\* Free counts that ignore the quota check.
FreeCountKept(hasSpace, free) == free

\* handler.go:540-543: without space the free counts are zero.
FreeCount(hasSpace, free) == IF ~hasSpace THEN 0 ELSE free

\* handler.go:512-556: the statistics and the error getStatVFSFromQuotaResult
\* returns when fs.GetAvailableDiskSize gave avail.
getStatVFSFromQuotaResult(avail, quotaResult) ==
    LET q1 == IF avail.err = "nil"
                THEN [quotaResult EXCEPT
                        !.QuotaSize = IF @ = 0 \/ @ > TotalSpace(avail.stats)
                                        THEN TotalSpace(avail.stats) ELSE @,
                        !.QuotaFiles = IF @ = 0 \/ @ > avail.stats.Files
                                         THEN avail.stats.Files ELSE @]
                ELSE quotaResult
        q == [q1 EXCEPT
                !.QuotaSize = IF @ = 0 THEN q1.UsedSize + DefaultQuotaSize ELSE @,
                !.QuotaFiles = IF @ = 0 THEN q1.UsedFiles + DefaultQuotaFiles ELSE @]
        bsize == BlockSize(InitialBlockSize, U64(q.QuotaSize))
        blocks == U64(q.QuotaSize) \div bsize
        bfree == FreeCount(q.HasSpace, U64(q.QuotaSize - q.UsedSize) \div bsize)
        ffree == FreeCount(q.HasSpace, U64(q.QuotaFiles - q.UsedFiles))
    IN  IF avail.err \notin {"nil", "ErrStorageSizeUnavailable"}
          THEN [err |-> avail.err, statvfs |-> NoStatVFS]
          ELSE [err |-> "nil",
                statvfs |-> [Bsize |-> bsize, Frsize |-> bsize, Blocks |-> blocks,
                             Bfree |-> bfree, Bavail |-> bfree,
                             Files |-> U64(q.QuotaFiles), Ffree |-> ffree,
                             Favail |-> ffree, Namemax |-> Namemax]]

\* handler.go:325, 332, 338
StatVFS_getStatVFSFromQuotaResult(r) ==
    /\ pc[r] = "sv_getStatVFSFromQuotaResult"
    /\ Call(r, "GetAvailableDiskSize", "resolved")
    /\ \E avail \in AvailableDiskSizes :
         LET res == getStatVFSFromQuotaResult(avail, loc[r].quotaResult) IN
         /\ loc' = [loc EXCEPT ![r].s = avail]
         /\ ret' = [ret EXCEPT ![r].err = res.err, ![r].statvfs = res.statvfs]
    /\ Goto(r, "done")
    /\ UNCHANGED <<connVars, envVars, files, quotaVars, req>>

StatVFS(r) ==
    \/ StatVFS_UpdateLastActivity(r)
    \/ StatVFS_HasSpace(r)
    \/ StatVFS_GetFsAndResolvedPath(r)
    \/ StatVFS_GetAvailableDiskSize(r)
    \/ StatVFS_getStatVFSFromQuotaResult(r)

\* ---------------------------------------------------------- Filecmd

\* handler.go:183
Filecmd_UpdateLastActivity(r) ==
    /\ pc[r] = "Filecmd"
    /\ UpdateLastActivity(r)
    /\ Call(r, "UpdateLastActivity", "")
    /\ Goto(r, "fc_Switch")
    /\ UNCHANGED <<envVars, files, quotaVars, req, loc, ret>>

\* handler.go:353-373: the common.StatAttr* flags of the attributes set.
StatAttributeFlags(attrFlags) ==
    (IF "Permissions" \in attrFlags THEN {"StatAttrPerms"} ELSE {})
    \cup (IF "UidGid" \in attrFlags THEN {"StatAttrUIDGID"} ELSE {})
    \cup (IF "Acmodtime" \in attrFlags THEN {"StatAttrTimes"} ELSE {})
    \cup (IF "Size" \in attrFlags THEN {"StatAttrSize"} ELSE {})

\* handler.go:186-187 and 352-376: the result of c.SetStat is returned as it is.
handleSFTPSetstat(r) ==
    /\ pc[r] = "fc_Switch"
    /\ req[r].Method = "Setstat"
    /\ Call(r, "SetStat", req[r].Filepath)
    /\ \E attrFlags \in AttrFlagSets, e \in ConnErrors \cup {"nil"} :
         /\ loc' = [loc EXCEPT ![r].attrs = StatAttributeFlags(attrFlags),
                               ![r].result = e]
         /\ ReturnErr(r, e)
    /\ UNCHANGED <<connVars, envVars, files, quotaVars, req>>

\* A command that hands the collaborator's result on as it is.
CommandResultDirect(err) == err

\* handler.go:188-191, 194-198, 199-202 and 209: what a rename, a mkdir and a
\* symlink return when the collaborator returned err.
CommandResult(err) == IF err # "nil" THEN err ELSE "ErrSSHFxOk"

\* handler.go:188-191, 194-198, 199-202 and 209: a rename, a mkdir and a
\* symlink return the collaborator's error, or ErrSSHFxOk.
Filecmd_Command(r) ==
    /\ pc[r] = "fc_Switch"
    /\ req[r].Method \in {"Rename", "Mkdir", "Symlink"}
    /\ Call(r, CASE req[r].Method = "Rename" -> "Rename"
                 [] req[r].Method = "Mkdir" -> "CreateDir"
                 [] OTHER -> "CreateSymlink", req[r].Filepath)
    /\ \E e \in ConnErrors \cup {"nil"} :
         /\ loc' = [loc EXCEPT ![r].result = e]
         /\ ReturnErr(r, CommandResult(e))
    /\ UNCHANGED <<connVars, envVars, files, quotaVars, req>>

\* handler.go:192-193
Filecmd_Rmdir(r) ==
    /\ pc[r] = "fc_Switch"
    /\ req[r].Method = "Rmdir"
    /\ Call(r, "RemoveDir", req[r].Filepath)
    /\ \E e \in ConnErrors \cup {"nil"} :
         /\ loc' = [loc EXCEPT ![r].result = e]
         /\ ReturnErr(r, e)
    /\ UNCHANGED <<connVars, envVars, files, quotaVars, req>>

\* handler.go:205-206
Filecmd_Default(r) ==
    /\ pc[r] = "fc_Switch"
    /\ req[r].Method \notin {"Setstat", "Rename", "Rmdir", "Mkdir", "Symlink", "Remove"}
    /\ ReturnErr(r, "ErrSSHFxOpUnsupported")
    /\ UNCHANGED <<connVars, envVars, files, quotaVars, req, loc, calls>>

\* handler.go:203-204 and 379-382
handleSFTPRemove_GetFsAndResolvedPath(r) ==
    /\ pc[r] = "fc_Switch"
    /\ req[r].Method = "Remove"
    /\ Call(r, "GetFsAndResolvedPath", req[r].Filepath)
    /\ \/ ReturnErr(r, "ErrResolve")
       \/ Goto(r, "rm_Lstat") /\ UNCHANGED ret
    /\ UNCHANGED <<connVars, envVars, files, quotaVars, req, loc>>

\* handler.go:384-388
handleSFTPRemove_Lstat(r) ==
    /\ pc[r] = "rm_Lstat"
    /\ Call(r, "Lstat", "resolved")
    /\ \/ /\ files.resolved.kind # "none"
          /\ loc' = [loc EXCEPT ![r].stat = files.resolved, ![r].statErr = "nil"]
          /\ Goto(r, "rm_RemoveFile")
          /\ UNCHANGED ret
       \/ \E e \in BackendErrors :
            /\ files.resolved.kind = "none" => e = "ErrNotExist"
            /\ loc' = [loc EXCEPT ![r].statErr = e]
            /\ ReturnErr(r, GetFsError(e))
    /\ UNCHANGED <<connVars, envVars, files, quotaVars, req>>

\* os.FileInfo.IsDir of the entry lstat reported.
IsDir(fi) == fi.kind \in {"dir", "symlinkdir"}

\* fi.Mode()&os.ModeSymlink != 0
IsSymlink(fi) == fi.kind \in {"symlink", "symlinkdir"}

\* A test that looks at the directory bit alone.
IsDirOnly(fi) == IsDir(fi)

\* handler.go:389: a directory that is not a symlink is not removed as a file.
IsPlainDir(fi) == IsDir(fi) /\ ~IsSymlink(fi)

\* handler.go:389-394: c.RemoveFile unlinks the entry.
handleSFTPRemove_RemoveFile(r) ==
    /\ pc[r] = "rm_RemoveFile"
    /\ IF IsPlainDir(loc[r].stat)
         THEN /\ ReturnErr(r, "ErrSSHFxFailure")
              /\ UNCHANGED <<files, calls, loc>>
         ELSE /\ Call(r, "RemoveFile", "resolved")
              /\ \/ \E e \in ConnErrors :
                      /\ loc' = [loc EXCEPT ![r].result = e]
                      /\ ReturnErr(r, e)
                      /\ UNCHANGED files
                 \/ /\ loc' = [loc EXCEPT ![r].result = "nil"]
                    /\ ReturnErr(r, "nil")
                    /\ files' = [files EXCEPT !.resolved = NoEntry]
    /\ UNCHANGED <<connVars, envVars, quotaVars, req>>

Filecmd(r) ==
    \/ Filecmd_UpdateLastActivity(r)
    \/ handleSFTPSetstat(r)
    \/ Filecmd_Command(r)
    \/ Filecmd_Rmdir(r)
    \/ Filecmd_Default(r)
    \/ handleSFTPRemove_GetFsAndResolvedPath(r)
    \/ handleSFTPRemove_Lstat(r)
    \/ handleSFTPRemove_RemoveFile(r)

\* --------------------------------------------------- vfs/folder.go

\* make([]string, len(src)) and copy(dst, src): the heap with a new array
\* that holds the elements of the array at src.
MakeCopy(h, src) == Append(h, h[src])

\* Filesystem.GetACopy: the configuration is copied to an array of its own.
FsConfigGetACopy(h, src) == Append(h, h[src])

\* folder.go:56-73, BaseVirtualFolder.GetACopy: the heap after the copy and
\* the record returned.  users is the array made first, groups the second,
\* the configuration's copy the third.
BaseVirtualFolderGetACopy(h, v) ==
    LET h1 == MakeCopy(h, v.Users)
        users == Len(h1)
        h2 == MakeCopy(h1, v.Groups)
        groups == Len(h2)
        h3 == FsConfigGetACopy(h2, v.FsConfig)
    IN  [heap |-> h3,
         folder |-> [ID |-> v.ID, Name |-> v.Name, MappedPath |-> v.MappedPath,
                     Description |-> v.Description,
                     UsedQuotaSize |-> v.UsedQuotaSize,
                     UsedQuotaFiles |-> v.UsedQuotaFiles,
                     LastQuotaUpdate |-> v.LastQuotaUpdate,
                     Users |-> users, Groups |-> v.Groups, FsConfig |-> Len(h3)]]

\* folder.go:254-261, VirtualFolder.GetACopy
VirtualFolderGetACopy(h, v) ==
    LET b == BaseVirtualFolderGetACopy(h, v.Base)
    IN  [heap |-> b.heap,
         folder |-> [Base |-> b.folder, VirtualPath |-> v.VirtualPath,
                     QuotaSize |-> v.QuotaSize, QuotaFiles |-> v.QuotaFiles]]

\* The list a slice holds.
Deref(h, slice) == h[slice]

\* A caller takes a copy of the folder's BaseVirtualFolder.
GetACopyOfBase ==
    /\ copy.kind = "none"
    /\ LET c == BaseVirtualFolderGetACopy(heap, orig.Base) IN
         /\ heap' = c.heap
         /\ copy' = [kind |-> "base",
                     folder |-> [NoVirtualFolder EXCEPT !.Base = c.folder]]
    /\ shadow' = [shadow EXCEPT !.copy = shadow.orig]
    /\ UNCHANGED <<folderPrefix, userPerms, orig, connVars, files, quotaVars,
                   pc, req, loc, ret, calls>>

\* A caller takes a copy of the VirtualFolder.
GetACopyOfVirtual ==
    /\ copy.kind = "none"
    /\ LET c == VirtualFolderGetACopy(heap, orig) IN
         /\ heap' = c.heap
         /\ copy' = [kind |-> "virtual", folder |-> c.folder]
    /\ shadow' = [shadow EXCEPT !.copy = shadow.orig]
    /\ UNCHANGED <<folderPrefix, userPerms, orig, connVars, files, quotaVars,
                   pc, req, loc, ret, calls>>

\* The folder whose is "orig" or "copy".
FolderOf(whose) == IF whose = "orig" THEN orig.Base ELSE copy.folder.Base

\* A caller assigns v.Users[i] or v.Groups[i] of the original or of the
\* copy: the element of the backing array is overwritten.
SetElement ==
    /\ copy.kind # "none"
    /\ \E whose \in {"orig", "copy"}, field \in {"Users", "Groups"}, x \in Names :
         LET slice == FolderOf(whose)[field] IN
         \E i \in 1..Len(heap[slice]) :
           /\ heap' = [heap EXCEPT ![slice][i] = x]
           /\ shadow' = [shadow EXCEPT ![whose][field][i] = x]
    /\ UNCHANGED <<folderPrefix, userPerms, orig, copy, connVars, files,
                   quotaVars, pc, req, loc, ret, calls>>

\* ---------------------------------------------------- specifications

\* A connection that serves write-opens.
NextWrite == \E r \in Requests : Dispatch(r, {"Filewrite"}) \/ handleFilewrite(r)

SpecWrite == Init /\ [][NextWrite]_vars

\* A connection that serves read-opens.
NextRead == \E r \in Requests : Dispatch(r, {"Fileread"}) \/ Fileread(r)

SpecRead == Init /\ [][NextRead]_vars

\* A connection that serves readlink requests.
NextReadlink == \E r \in Requests : Dispatch(r, {"Readlink"}) \/ Readlink(r)

SpecReadlink == Init /\ [][NextReadlink]_vars

\* A connection that serves directory listings and stats.
NextList == \E r \in Requests : Dispatch(r, {"Filelist"}) \/ Filelist(r)

SpecList == InitScoped /\ [][NextList]_vars

\* A connection that serves filesystem statistics.
NextStatVFS == \E r \in Requests : Dispatch(r, {"StatVFS"}) \/ StatVFS(r)

SpecStatVFS == Init /\ [][NextStatVFS]_vars

\* A connection that serves read-opens and write-opens.
NextOpen ==
    \E r \in Requests :
      \/ Dispatch(r, {"Fileread", "Filewrite"})
      \/ Fileread(r)
      \/ handleFilewrite(r)

SpecOpen == Init /\ [][NextOpen]_vars

\* A connection that serves file commands.
NextCmd == \E r \in Requests : Dispatch(r, {"Filecmd"}) \/ Filecmd(r)

SpecCmd == Init /\ [][NextCmd]_vars

\* A link that the backend reports with both the directory bit and the
\* symlink bit set.
LinkToDir == [kind |-> "symlinkdir", size |-> 0]

\* File commands on every kind of entry, a link to a directory included.
InitRemove ==
    InitConnection({""}, SUBSET Perms, Entries \cup {LinkToDir}) /\ InitFolder({<<"u1">>})

SpecRemove == InitRemove /\ [][NextCmd]_vars

\* A client that pipelines truncating write-opens of one existing file.
DispatchTruncating(r) ==
    /\ Dispatch(r, {"Filewrite"})
    /\ req'[r].Pflags.Trunc
    /\ ~req'[r].Pflags.Read /\ ~req'[r].Pflags.Append

NextOverlap == \E r \in Pipelined : DispatchTruncating(r) \/ handleFilewrite(r)

InitOverlap ==
    /\ InitConnection({""}, {Perms}, {[kind |-> "file", size |-> 500]})
    /\ InitFolder({<<"u1">>})

SpecOverlap == InitOverlap /\ [][NextOverlap]_vars

\* A connection that serves one request of any kind.
Next ==
    \E r \in Requests :
        \/ Dispatch(r, Handlers)
        \/ Fileread(r)
        \/ handleFilewrite(r)
        \/ Filecmd(r)
        \/ Filelist(r)
        \/ Lstat(r)
        \/ Readlink(r)
        \/ RealPath(r)
        \/ StatVFS(r)

Spec == Init /\ [][Next]_vars

\* Folder records that are copied and then written to.
NextFolder == GetACopyOfBase \/ GetACopyOfVirtual \/ SetElement

\* An idle connection and a folder with any lists of at most MaxLen names.
InitFolders ==
    InitConnection({""}, {{}}, {NoEntry}) /\ InitFolder(ListsUpTo(MaxLen))

SpecFolder == InitFolders /\ [][NextFolder]_vars

\* ================================================================ claims

\* The calls that reach the storage backend.
BackendCallNames ==
    {"Lstat", "Open", "Create", "Rename", "Readlink", "RealPath",
     "GetAvailableDiskSize", "RemoveFile"}

\* Request r entered handleSFTPUploadToNewFile and evaluated its quota gate.
CreateNewGateEvaluated(r) ==
    \E i \in 1..Len(calls[r]) :
      calls[r][i] = [fn |-> "HasSpace", arg |-> "isNewFile=true"]

\* Request r entered handleSFTPUploadToExistingFile and evaluated its gate.
OverwriteGateEvaluated(r) ==
    \E i \in 1..Len(calls[r]) :
      calls[r][i] = [fn |-> "HasSpace", arg |-> "isNewFile=false"]

\* The disk quota or the upload transfer quota answered "no space" to r.
GateDenied(r) == ~loc[r].diskHasSpace \/ ~loc[r].hasUploadSpace

\* C1, as stated: on the create-new path, when the disk quota or the upload
\* transfer quota denies, the write returns quota-exceeded and the backend
\* has received no call at all.
C1_NoBackendCallAtAll ==
    \A r \in Requests :
      (CreateNewGateEvaluated(r) /\ GateDenied(r)) =>
        /\ pc[r] = "done"
        /\ ret[r].err = "QuotaExceeded"
        /\ \A i \in 1..Len(calls[r]) : calls[r][i].fn \notin BackendCallNames

\* C1: on the create-new path the quota gate HasSpace(isNewFile = true) and
\* the transfer-quota check come before any backend open, create or rename
\* call; when either denies, the write returns quota-exceeded and the only
\* backend call made is the one lstat that selected the path.
C1_QuotaGateBeforeCreate ==
    \A r \in Requests :
      /\ \A i \in 1..Len(calls[r]) :
           calls[r][i].fn \in {"Open", "Create", "Rename"} =>
             \E j \in 1..(i - 1) : calls[r][j].fn = "HasSpace"
      /\ (CreateNewGateEvaluated(r) /\ GateDenied(r)) =>
           /\ pc[r] = "done"
           /\ ret[r].err = "QuotaExceeded"
           /\ \A i \in 1..Len(calls[r]) :
                calls[r][i].fn \in BackendCallNames => calls[r][i].fn = "Lstat"
           /\ CallCount(r, "Lstat") = 1
           /\ ~Called(r, "ExecutePreAction")

\* A write to a missing path is refused because the transfer quota is used up
\* while the disk quota has space.
C1_Witness ==
    \E r \in Requests :
      /\ CreateNewGateEvaluated(r)
      /\ loc[r].statErr = "ErrNotExist"
      /\ loc[r].diskHasSpace /\ ~loc[r].hasUploadSpace
      /\ pc[r] = "done"
      /\ ret[r].err = "QuotaExceeded"

\* C2: an overwrite open is a resume exactly when the truncate flag is unset,
\* whatever the append flag; the transfer of a resume has the file's size as
\* initial size, and as minimum write offset when the append flag is set or
\* the backend has no native resume support (0 otherwise).
C2_ResumeSelection ==
    \A r \in Requests :
      /\ (OverwriteGateEvaluated(r) /\ Called(r, "GetMaxWriteSize")) =>
           (loc[r].isResume <=> ~req[r].Pflags.Trunc)
      /\ (OverwriteGateEvaluated(r) /\ pc[r] = "done" /\ ret[r].err = "nil"
            /\ ~req[r].Pflags.Trunc) =>
           /\ ret[r].transfer.initialSize = loc[r].stat.size
           /\ ret[r].transfer.minWriteOffset =
                IF req[r].Pflags.Append \/ ~loc[r].fs.uploadResume
                  THEN loc[r].stat.size
                  ELSE 0

\* A resume without the append flag on a backend without native resume: the
\* minimum write offset is the size of the 500 byte file.
C2_Witness ==
    \E r \in Requests :
      /\ OverwriteGateEvaluated(r)
      /\ pc[r] = "done" /\ ret[r].err = "nil"
      /\ ~req[r].Pflags.Trunc /\ ~req[r].Pflags.Append
      /\ ~loc[r].fs.uploadResume
      /\ loc[r].stat.size = 500
      /\ ret[r].transfer.minWriteOffset = 500
      /\ ret[r].transfer.initialSize = 500

\* The quota update (0 files, -size bytes) addressed to target.
Debit(target, size) ==
    [target |-> target, files |-> 0, size |-> -size, reset |-> FALSE]

\* C3, as stated: a truncating open on a backend with native truncate issues
\* the debit to the virtual folder (and to the owner when the folder is
\* included in the owner's quota).
C3_DebitsTheVirtualFolder ==
    \A r \in Requests :
      (OverwriteGateEvaluated(r) /\ pc[r] = "done" /\ ret[r].err = "nil"
         /\ req[r].Pflags.Trunc /\ loc[r].fs.truncate) =>
        /\ updates[r] \in
             {<<Debit("folder", loc[r].stat.size)>>,
              <<Debit("folder", loc[r].stat.size),
                Debit("user", loc[r].stat.size)>>}
        /\ (Len(updates[r]) = 2 <=> IsIncludedInUserQuota(loc[r].vfolder))
        /\ ret[r].transfer.initialSize = 0
        /\ ret[r].transfer.truncatedSize = 0

\* C3: for a successful truncating open of a file of size S: without native
\* truncate the transfer has truncated size S and initial size S and no quota
\* update is issued; with native truncate the open issues exactly (0, -S) to
\* the virtual folder holding the parent directory (and to the owner when the
\* folder is included in the owner's quota), or to the owner alone when no
\* virtual folder holds it, and both sizes are 0.  A resume issues no update
\* and has truncated size 0.
C3_TruncateQuota ==
    \A r \in Requests :
      (OverwriteGateEvaluated(r) /\ pc[r] = "done" /\ ret[r].err = "nil") =>
        LET S == loc[r].stat.size
            t == ret[r].transfer
            v == loc[r].vfolder
        IN  /\ (req[r].Pflags.Trunc /\ ~loc[r].fs.truncate) =>
                 /\ t.truncatedSize = S /\ t.initialSize = S
                 /\ updates[r] = <<>>
            /\ (req[r].Pflags.Trunc /\ loc[r].fs.truncate) =>
                 /\ t.truncatedSize = 0 /\ t.initialSize = 0
                 /\ updates[r] =
                      IF ~v.found THEN <<Debit("user", S)>>
                      ELSE IF v.QuotaFiles = -1 /\ v.QuotaSize = -1
                        THEN <<Debit("folder", S), Debit("user", S)>>
                        ELSE <<Debit("folder", S)>>
            /\ ~req[r].Pflags.Trunc =>
                 /\ t.truncatedSize = 0
                 /\ updates[r] = <<>>

\* A 500 byte file in a virtual folder included in the owner's quota is
\* truncated natively: folder and owner are debited 500 bytes each.
C3_Witness ==
    \E r \in Requests :
      /\ OverwriteGateEvaluated(r)
      /\ pc[r] = "done" /\ ret[r].err = "nil"
      /\ req[r].Pflags.Trunc /\ loc[r].fs.truncate
      /\ loc[r].stat.size = 500
      /\ loc[r].vfolder.found /\ IsIncludedInUserQuota(loc[r].vfolder)
      /\ updates[r] = <<Debit("folder", 500), Debit("user", 500)>>
      /\ usedQuota = [folder |-> 0, user |-> 0]

\* C4: a read-open of a path the file policy denies, by a user with download
\* permission and download budget, returns not-found under the hide policy
\* and permission-denied under any other deny policy; the pre-download hook
\* is not run and the backend is not asked to open.
C4_DeniedReadOpen ==
    \A r \in Requests :
      (req[r].handler = "Fileread" /\ Called(r, "IsFileAllowed")
         /\ loc[r].policy # "allow") =>
        /\ HasPerm("PermDownload", PathDir(req[r].Filepath))
        /\ pc[r] = "done"
        /\ ret[r].err = IF loc[r].policy = "DenyPolicyHide"
                          THEN "ErrSSHFxNoSuchFile"
                          ELSE "ErrSSHFxPermissionDenied"
        /\ ~Called(r, "ExecutePreAction")
        /\ ~Called(r, "Open")
        /\ ~Called(r, "GetFsAndResolvedPath")

\* A hidden path is read-opened: the answer is not-found.
C4_Witness ==
    \E r \in Requests :
      /\ req[r].handler = "Fileread"
      /\ Called(r, "HasDownloadSpace") /\ Called(r, "IsFileAllowed")
      /\ loc[r].policy = "DenyPolicyHide"
      /\ pc[r] = "done"
      /\ ret[r].err = "ErrSSHFxNoSuchFile"

\* C5, as stated: when the file policy denies the link path or the link
\* target, readlink by a user with list permission returns not-found under
\* the hide policy and permission-denied under any other deny policy, and
\* never returns the target.
C5_DeniedReadlink ==
    \A r \in Requests :
      (req[r].handler = "Readlink" /\ pc[r] = "done"
         /\ HasPerm("PermListItems", PathDir(req[r].Filepath))) =>
        /\ (Called(r, "canReadLink") /\ loc[r].policy # "allow") =>
             /\ ret[r].err = IF loc[r].policy = "DenyPolicyHide"
                               THEN "ErrSSHFxNoSuchFile"
                               ELSE "ErrSSHFxPermissionDenied"
             /\ ret[r].str = ""
        /\ (CallCount(r, "canReadLink") = 2 /\ loc[r].targetPolicy # "allow") =>
             /\ ret[r].err = IF loc[r].targetPolicy = "DenyPolicyHide"
                               THEN "ErrSSHFxNoSuchFile"
                               ELSE "ErrSSHFxPermissionDenied"
             /\ ret[r].str = ""

\* Request r has taken the branch of handleFilewrite.
BranchTaken(r) ==
    /\ req[r].handler = "Filewrite"
    /\ Called(r, "Lstat")
    /\ pc[r] \notin {"hf_Branch"}

\* C6: the lstat result selects the branch of a write-open.  Not-found or a
\* symlink: CreateNew, permission-denied without the upload permission.  A
\* directory: operation-unsupported, with no quota check, hook or create.
\* Another file: Overwrite, permission-denied without the overwrite
\* permission.  Any other lstat error: the mapped backend error.  The upload
\* permission never admits an overwrite, the overwrite permission never a
\* create.
C6_BranchSelection ==
    \A r \in Requests :
      BranchTaken(r) =>
        LET dir == PathDir(req[r].Filepath)
            e == loc[r].statErr
            kind == loc[r].stat.kind
            refused(err) == /\ pc[r] = "done" /\ ret[r].err = err
                            /\ ~Called(r, "HasSpace")
                            /\ ~Called(r, "ExecutePreAction")
                            /\ ~Called(r, "Create")
        IN  CASE e = "ErrNotExist" \/ (e = "nil" /\ kind = "symlink") ->
                   /\ ~OverwriteGateEvaluated(r)
                   /\ pc[r] # "handleSFTPUploadToExistingFile"
                   /\ IF HasPerm("PermUpload", dir)
                        THEN \/ pc[r] = "handleSFTPUploadToNewFile"
                             \/ CreateNewGateEvaluated(r)
                        ELSE refused("ErrSSHFxPermissionDenied")
              [] e = "nil" /\ kind = "dir" ->
                   refused("ErrSSHFxOpUnsupported")
              [] e = "nil" /\ kind \notin {"symlink", "dir"} ->
                   /\ ~CreateNewGateEvaluated(r)
                   /\ pc[r] # "handleSFTPUploadToNewFile"
                   /\ IF HasPerm("PermOverwrite", dir)
                        THEN \/ pc[r] = "handleSFTPUploadToExistingFile"
                             \/ OverwriteGateEvaluated(r)
                        ELSE refused("ErrSSHFxPermissionDenied")
              [] OTHER ->
                   refused(IF e = "ErrPermission" THEN "ErrSSHFxPermissionDenied"
                           ELSE "ErrSSHFxFailure")

\* A user holding the upload permission but not the overwrite permission
\* opens an existing file for writing and is refused.
C6_Witness ==
    \E r \in Requests :
      /\ BranchTaken(r)
      /\ loc[r].statErr = "nil" /\ loc[r].stat.kind = "file"
      /\ HasPerm("PermUpload", PathDir(req[r].Filepath))
      /\ ~HasPerm("PermOverwrite", PathDir(req[r].Filepath))
      /\ pc[r] = "done"
      /\ ret[r].err = "ErrSSHFxPermissionDenied"
      /\ ~Called(r, "HasSpace")

\* C7: a successful listing is ".", then ".." unless the path is "/" and the
\* session has no folder prefix, then the backend's entries unchanged.
C7_SyntheticEntries ==
    \A r \in Requests :
      (req[r].handler = "Filelist" /\ req[r].Method = "List"
         /\ pc[r] = "done" /\ ret[r].err = "nil") =>
        ret[r].files =
          <<".">>
          \o (IF req[r].Filepath = "/" /\ folderPrefix = "" THEN <<>> ELSE <<"..">>)
          \o loc[r].dirEntries

\* The root of a session scoped to a folder is listed: "." and ".." come
\* before the backend's entries.
C7_Witness ==
    \E r \in Requests :
      /\ req[r].handler = "Filelist" /\ req[r].Method = "List"
      /\ pc[r] = "done" /\ ret[r].err = "nil"
      /\ req[r].Filepath = "/" /\ folderPrefix # ""
      /\ loc[r].dirEntries # <<>>
      /\ ret[r].files = <<".", "..">> \o loc[r].dirEntries

\* C8: when the quota check reports no space, a successful stat-filesystem
\* response has zero free and available block and file counts, whatever the
\* backend reports; when there is space, no quota restriction and the backend
\* reports statistics, the response is the backend's statistics.
C8_StatVFSQuota ==
    \A r \in Requests :
      (req[r].handler = "StatVFS" /\ pc[r] = "done" /\ ret[r].err = "nil") =>
        LET q == loc[r].quotaResult
            st == ret[r].statvfs
        IN  /\ ~q.HasSpace =>
                 /\ st.Bfree = 0 /\ st.Bavail = 0
                 /\ st.Ffree = 0 /\ st.Favail = 0
            /\ (q.HasSpace /\ q.QuotaSize = 0 /\ q.QuotaFiles = 0
                  /\ loc[r].avail.err = "nil") =>
                 st = loc[r].avail.stats

\* The quota is used up while the backend reports free blocks and files: the
\* response has no free block and no free file.
C8_Witness ==
    \E r \in Requests :
      /\ req[r].handler = "StatVFS"
      /\ pc[r] = "done" /\ ret[r].err = "nil"
      /\ ~loc[r].quotaResult.HasSpace
      /\ loc[r].s.err = "nil"
      /\ loc[r].s.stats.Bfree > 0 /\ loc[r].s.stats.Ffree > 0
      /\ ret[r].statvfs.Bfree = 0 /\ ret[r].statvfs.Ffree = 0
      /\ ret[r].statvfs.Blocks > 0

\* C9, as stated: the copy GetACopy returns is value-equal to the original,
\* and element writes to the Users or Groups list of the one never show in
\* the lists of the other.
C9_CopyIsIndependent ==
    copy.kind # "none" =>
      /\ \A f \in {"ID", "Name", "MappedPath", "Description", "UsedQuotaSize",
                   "UsedQuotaFiles", "LastQuotaUpdate"} :
           copy.folder.Base[f] = orig.Base[f]
      /\ copy.kind = "virtual" =>
           /\ copy.folder.VirtualPath = orig.VirtualPath
           /\ copy.folder.QuotaSize = orig.QuotaSize
           /\ copy.folder.QuotaFiles = orig.QuotaFiles
      /\ \A f \in {"Users", "Groups"} :
           /\ Deref(heap, orig.Base[f]) = shadow.orig[f]
           /\ Deref(heap, copy.folder.Base[f]) = shadow.copy[f]

\* C10, as stated: every handler updates the last-activity timestamp before
\* any other step, so every request served, rejected ones included, has
\* advanced last-activity.
C10_ActivityFirst ==
    \A r \in Requests :
      /\ Len(calls[r]) > 0 => calls[r][1].fn = "UpdateLastActivity"
      /\ pc[r] = "done" => lastActivity = clock

\* C11, as stated: the used quota of the virtual folder and of the user is
\* never negative, whatever the interleaving of the write-opens, two
\* overlapping truncating opens of one file on a backend with native truncate
\* included.
C11_UsedQuotaNonNegative ==
    usedQuota.folder >= 0 /\ usedQuota.user >= 0

\* Request r opened a file with native truncation and the debit found the
\* parent directory in a virtual folder.
TruncatedInFolder(r) ==
    /\ OverwriteGateEvaluated(r)
    /\ pc[r] = "done" /\ ret[r].err = "nil"
    /\ req[r].Pflags.Trunc /\ loc[r].fs.truncate
    /\ loc[r].vfolder.found

\* C12, as stated: when the quota-size limit or the quota-file limit of the
\* folder is -1, the truncation debit leaves the folder's used size as it was
\* and debits the user instead.
C12_EitherLimitSparesTheFolder ==
    \A r \in Requests :
      (TruncatedInFolder(r)
         /\ (loc[r].vfolder.QuotaSize = -1 \/ loc[r].vfolder.QuotaFiles = -1)) =>
        /\ usedQuota.folder = loc[r].stat.size
        /\ usedQuota.user = 0
        /\ \A i \in 1..Len(updates[r]) : updates[r][i].target = "user"

\* C12: a truncation debit inside a virtual folder always lowers the folder's
\* used size by the file's size; it lowers the user's used size by the same
\* amount exactly when both the quota-size and the quota-file limit of the
\* folder are -1, and leaves the user's used size as it was otherwise.
C12_BothLimitsIncludeTheUser ==
    \A r \in Requests :
      TruncatedInFolder(r) =>
        LET S == loc[r].stat.size
            both == loc[r].vfolder.QuotaSize = -1 /\ loc[r].vfolder.QuotaFiles = -1
        IN  /\ usedQuota.folder = 0
            /\ usedQuota.user = IF both THEN 0 ELSE S
            /\ Cardinality({i \in 1..Len(updates[r]) :
                              updates[r][i].target = "folder"}) = 1
            /\ Cardinality({i \in 1..Len(updates[r]) :
                              updates[r][i].target = "user"}) = IF both THEN 1 ELSE 0

\* A folder whose size limit alone is -1: the folder is debited the 500
\* bytes, the user is not.
C12_Witness ==
    \E r \in Requests :
      /\ TruncatedInFolder(r)
      /\ loc[r].vfolder.QuotaSize = -1 /\ loc[r].vfolder.QuotaFiles = 0
      /\ loc[r].stat.size = 500
      /\ usedQuota = [folder |-> 0, user |-> 500]

\* The collaborators a file command hands its work to.
CommandCollaborators ==
    {"SetStat", "Rename", "CreateDir", "CreateSymlink", "RemoveDir",
     "GetFsAndResolvedPath", "Lstat", "RemoveFile"}

\* File command r asked the collaborator fn and has returned.
Commanded(r, method, fn) ==
    /\ req[r].handler = "Filecmd" /\ req[r].Method = method
    /\ pc[r] = "done"
    /\ Called(r, fn)

\* C13, as stated: a successful Setstat, rename, mkdir and symlink return the
\* ok sentinel; an unknown operation returns operation-unsupported and calls
\* no collaborator; rmdir and remove return the collaborator's result.
C13_OkSentinelForSetstat ==
    \A r \in Requests :
      /\ \A m \in {"Setstat", "Rename", "Mkdir", "Symlink"} :
           (req[r].handler = "Filecmd" /\ req[r].Method = m /\ pc[r] = "done"
              /\ loc[r].result = "nil") => ret[r].err = "ErrSSHFxOk"
      /\ (req[r].handler = "Filecmd" /\ req[r].Method \notin
              {"Setstat", "Rename", "Rmdir", "Mkdir", "Symlink", "Remove"}
            /\ pc[r] = "done") =>
           /\ ret[r].err = "ErrSSHFxOpUnsupported"
           /\ \A i \in 1..Len(calls[r]) : calls[r][i].fn \notin CommandCollaborators
      /\ Commanded(r, "Rmdir", "RemoveDir") => ret[r].err = loc[r].result
      /\ Commanded(r, "Remove", "RemoveFile") => ret[r].err = loc[r].result

\* C13: a successful rename, mkdir and symlink return the ok sentinel and a
\* failed one the collaborator's error; Setstat, rmdir and remove return the
\* result of their collaborator as it is, which is nil and not the sentinel
\* on success; an unknown operation returns operation-unsupported and calls
\* no collaborator.
C13_FilecmdResults ==
    \A r \in Requests :
      /\ \A m \in {"Rename", "Mkdir", "Symlink"} :
           (req[r].handler = "Filecmd" /\ req[r].Method = m /\ pc[r] = "done") =>
             /\ loc[r].result = "nil" => ret[r].err = "ErrSSHFxOk"
             /\ loc[r].result # "nil" => ret[r].err = loc[r].result
      /\ Commanded(r, "Setstat", "SetStat") => ret[r].err = loc[r].result
      /\ Commanded(r, "Rmdir", "RemoveDir") => ret[r].err = loc[r].result
      /\ Commanded(r, "Remove", "RemoveFile") => ret[r].err = loc[r].result
      /\ (req[r].handler = "Filecmd" /\ req[r].Method \notin
              {"Setstat", "Rename", "Rmdir", "Mkdir", "Symlink", "Remove"}
            /\ pc[r] = "done") =>
           /\ ret[r].err = "ErrSSHFxOpUnsupported"
           /\ \A i \in 1..Len(calls[r]) : calls[r][i].fn \notin CommandCollaborators

\* A Setstat succeeds: the handler returns the nil of c.SetStat.
C13_Witness ==
    \E r \in Requests :
      /\ Commanded(r, "Setstat", "SetStat")
      /\ loc[r].result = "nil"
      /\ ret[r].err = "nil"

\* C14, as stated: an error of a backend call that a handler returns has
\* passed through the backend-error-to-protocol-error mapping; no handler
\* returns a raw backend error.
C14_NoRawBackendError ==
    \A r \in Requests :
      pc[r] = "done" => ret[r].err \notin BackendErrors

\* C15: when the pre-download or pre-upload hook returns an error, whatever
\* it is, the open returns permission-denied and has issued no backend open,
\* create or rename call and no quota update.
C15_HookRefusal ==
    \A r \in Requests :
      (Called(r, "ExecutePreAction") /\ loc[r].hookErr \in HookErrors) =>
        /\ pc[r] = "done"
        /\ ret[r].err = "ErrSSHFxPermissionDenied"
        /\ ~Called(r, "Open") /\ ~Called(r, "Create") /\ ~Called(r, "Rename")
        /\ updates[r] = <<>>
        /\ usedQuota = [folder |-> files.resolved.size,
                        user |-> files.resolved.size]
        /\ files.staging = NoEntry

\* The pre-upload hook times out on the overwrite of an existing file.
C15_OverwriteWitness ==
    \E r \in Requests :
      /\ req[r].handler = "Filewrite"
      /\ OverwriteGateEvaluated(r)
      /\ loc[r].hookErr = "ErrHookTimeout"
      /\ pc[r] = "done"
      /\ ret[r].err = "ErrSSHFxPermissionDenied"

\* Scenario C: request r, with the append flag and without the truncate
\* flag, found a 500 byte file, its user holds the overwrite permission, the
\* quota gate found space, the hook (when asked) accepted, and r returned.
ScenarioC(r) ==
    /\ req[r].handler = "Filewrite"
    /\ req[r].Pflags.Append /\ ~req[r].Pflags.Trunc
    /\ Called(r, "Lstat")
    /\ loc[r].statErr = "nil" /\ loc[r].stat = [kind |-> "file", size |-> 500]
    /\ HasPerm("PermOverwrite", PathDir(req[r].Filepath))
    /\ OverwriteGateEvaluated(r) /\ ~GateDenied(r)
    /\ loc[r].hookErr \notin HookErrors
    /\ pc[r] = "done"

\* The last collaborator request r called.
LastCall(r) == calls[r][Len(calls[r])].fn

\* C16, as stated: in scenario C on a backend without native resume the
\* write-open succeeds, with minimum write offset 500, initial size 500 and
\* truncated size 0 (the backend's own rename and create are taken to
\* succeed).
C16_ScenarioCSucceeds ==
    \A r \in Requests :
      (ScenarioC(r) /\ LastCall(r) \notin {"Rename", "Create"}) =>
        /\ ret[r].err = "nil"
        /\ ~loc[r].fs.uploadResume =>
             /\ ret[r].transfer.minWriteOffset = 500
             /\ ret[r].transfer.initialSize = 500
             /\ ret[r].transfer.truncatedSize = 0

\* C16: in scenario C on a backend without native resume, the write-open
\* that succeeds returns a transfer with minimum write offset 500, initial
\* size 500 and truncated size 0; it fails only with the error of
\* GetMaxWriteSize, of the staging rename or of the backend create.
C16_ScenarioC ==
    \A r \in Requests :
      ScenarioC(r) =>
        /\ (ret[r].err = "nil" /\ ~loc[r].fs.uploadResume) =>
             /\ ret[r].transfer.minWriteOffset = 500
             /\ ret[r].transfer.initialSize = 500
             /\ ret[r].transfer.truncatedSize = 0
             /\ ~ret[r].transfer.isNewFile
             /\ updates[r] = <<>>
        /\ ret[r].err = "nil" <=> LastCall(r) = "NewBaseTransfer"
        /\ ret[r].err # "nil" =>
             LastCall(r) \in {"GetMaxWriteSize", "Rename", "Create"}

\* Scenario C ends with a transfer on a backend without native resume.
C16_Witness ==
    \E r \in Requests :
      /\ ScenarioC(r)
      /\ ret[r].err = "nil"
      /\ ~loc[r].fs.uploadResume
      /\ ret[r].transfer.minWriteOffset = 500
      /\ ret[r].transfer.initialSize = 500
      /\ ret[r].transfer.truncatedSize = 0

\* Request r called a before it called b.
CalledBefore(r, a, b) ==
    \E i \in 1..Len(calls[r]), j \in 1..Len(calls[r]) :
      i < j /\ calls[r][i].fn = a /\ calls[r][j].fn = b

\* The permission, policy, quota and hook checks of request r came before its
\* call number i, and each of them passed.
ChecksPassedBefore(r, i) ==
    LET before(fn) == \E j \in 1..(i - 1) : calls[r][j].fn = fn
        dir == PathDir(req[r].Filepath)
    IN  /\ before("HasPerm") /\ before("IsFileAllowed") /\ before("ExecutePreAction")
        /\ loc[r].policy = "allow"
        /\ loc[r].hookErr = "nil"
        /\ IF req[r].handler = "Fileread"
             THEN /\ HasPerm("PermDownload", dir)
                  /\ before("HasDownloadSpace") /\ loc[r].hasDownloadSpace
             ELSE /\ LET perm == IF CreateNewGateEvaluated(r) THEN "PermUpload"
                                  ELSE "PermOverwrite"
                     IN  /\ HasPerm(perm, dir)
                         /\ \E j \in 1..(i - 1) :
                              calls[r][j] = [fn |-> "HasPerm", arg |-> perm]
                  /\ before("HasSpace") /\ ~GateDenied(r)

\* C17: a read-open or write-open calls the backend's open, create or rename
\* only after its permission check, policy check, quota gate and pre-action
\* hook have passed; an overwrite goes through quota gate, max-write-size,
\* hook, staging rename and create in that order.
C17_ChecksBeforeBackend ==
    \A r \in Requests :
      /\ \A i \in 1..Len(calls[r]) :
           calls[r][i].fn \in {"Open", "Create", "Rename"} =>
             ChecksPassedBefore(r, i)
      /\ OverwriteGateEvaluated(r) =>
           /\ Called(r, "GetMaxWriteSize") =>
                CalledBefore(r, "HasSpace", "GetMaxWriteSize")
           /\ Called(r, "ExecutePreAction") =>
                CalledBefore(r, "GetMaxWriteSize", "ExecutePreAction")
           /\ Called(r, "Rename") =>
                /\ CalledBefore(r, "ExecutePreAction", "Rename")
                /\ ~CalledBefore(r, "Create", "Rename")
           /\ Called(r, "Create") =>
                CalledBefore(r, "ExecutePreAction", "Create")
           /\ CallCount(r, "Create") <= 1 /\ CallCount(r, "Rename") <= 1

\* An overwrite with atomic upload has renamed the file to the staging path
\* and created it there, after the gate, the size computation and the hook.
C17_Witness ==
    \E r \in Requests :
      /\ OverwriteGateEvaluated(r)
      /\ pc[r] = "done" /\ ret[r].err = "nil"
      /\ CalledBefore(r, "HasSpace", "GetMaxWriteSize")
      /\ CalledBefore(r, "GetMaxWriteSize", "ExecutePreAction")
      /\ CalledBefore(r, "ExecutePreAction", "Rename")
      /\ CalledBefore(r, "Rename", "Create")

\* The write-open r has chosen the path it creates the file at.
StagingChosen(r) == req[r].handler = "Filewrite" /\ Called(r, "Lstat")

\* C18: with the global atomic-upload policy and the backend's capability
\* both active, a write-open never creates at the resolved path: create-new
\* creates at the staging path, overwrite renames the file to the staging
\* path and then creates there, and a failed rename returns the mapped error
\* with no create.  With either inactive the file is created at the resolved
\* path and nothing is renamed.
C18_AtomicStaging ==
    \A r \in Requests :
      StagingChosen(r) =>
        LET active == loc[r].configAtomic /\ loc[r].fs.atomicUpload
            creates == {i \in 1..Len(calls[r]) : calls[r][i].fn = "Create"}
        IN  IF active
              THEN /\ \A i \in creates : calls[r][i].arg = "staging"
                   /\ (OverwriteGateEvaluated(r) /\ creates # {}) =>
                        /\ CalledBefore(r, "Rename", "Create")
                        /\ loc[r].result = "nil"
                        /\ files.resolved = NoEntry
                   /\ CreateNewGateEvaluated(r) => ~Called(r, "Rename")
                   /\ (Called(r, "Rename") /\ loc[r].result # "nil") =>
                        /\ pc[r] = "done"
                        /\ ret[r].err =
                             CASE loc[r].result = "ErrNotExist" -> "ErrSSHFxNoSuchFile"
                               [] loc[r].result = "ErrPermission" ->
                                    "ErrSSHFxPermissionDenied"
                               [] OTHER -> "ErrSSHFxFailure"
                        /\ creates = {}
                        /\ files.staging = NoEntry
                   /\ (pc[r] = "done" /\ ret[r].err = "nil") =>
                        ret[r].transfer.effectiveFsPath = "staging"
              ELSE /\ \A i \in creates : calls[r][i].arg = "resolved"
                   /\ ~Called(r, "Rename")
                   /\ files.staging = NoEntry
                   /\ (pc[r] = "done" /\ ret[r].err = "nil") =>
                        ret[r].transfer.effectiveFsPath = "resolved"

\* An overwrite with atomic upload active: the 500 byte file was renamed to
\* the staging path and opened there; nothing is left at the resolved path.
C18_Witness ==
    \E r \in Requests :
      /\ StagingChosen(r) /\ OverwriteGateEvaluated(r)
      /\ loc[r].configAtomic /\ loc[r].fs.atomicUpload
      /\ loc[r].stat.size = 500
      /\ pc[r] = "done" /\ ret[r].err = "nil"
      /\ CalledBefore(r, "Rename", "Create")
      /\ files.resolved = NoEntry
      /\ files.staging.kind = "file"
      /\ ret[r].transfer.effectiveFsPath = "staging"

\* The write-open r called updateQuotaAfterTruncate.
HelperCalled(r) ==
    /\ OverwriteGateEvaluated(r)
    /\ pc[r] = "done" /\ ret[r].err = "nil"
    /\ req[r].Pflags.Trunc /\ loc[r].fs.truncate

\* C19: for a file of size S the truncation helper issues updates with file
\* delta 0, size delta -S and reset = false only: to the folder and then to
\* the user when the parent directory is in a virtual folder whose two limits
\* are -1, to the folder alone when it is in a folder with other limits, and
\* to the user alone when it is in no virtual folder.
C19_HelperUpdates ==
    \A r \in Requests :
      LET ups == updates[r]
          v == loc[r].vfolder
          targets == [i \in 1..Len(ups) |-> ups[i].target]
      IN  /\ \A i \in 1..Len(ups) :
               /\ ups[i].files = 0
               /\ ups[i].size = -loc[r].stat.size
               /\ ups[i].reset = FALSE
          /\ ups # <<>> => HelperCalled(r)
          /\ HelperCalled(r) =>
               targets = CASE ~v.found -> <<"user">>
                           [] v.found /\ v.QuotaSize = -1 /\ v.QuotaFiles = -1 ->
                                <<"folder", "user">>
                           [] OTHER -> <<"folder">>

\* A 500 byte file in no virtual folder is truncated: the user alone is
\* debited.
C19_Witness ==
    \E r \in Requests :
      /\ HelperCalled(r)
      /\ ~loc[r].vfolder.found
      /\ updates[r] = <<[target |-> "user", files |-> 0, size |-> -500,
                          reset |-> FALSE]>>
      /\ usedQuota = [folder |-> 500, user |-> 0]

\* The write-open r returned a transfer.
WriteOpened(r) ==
    req[r].handler = "Filewrite" /\ pc[r] = "done" /\ ret[r].err = "nil"

\* The write-open r stopped at its check of the download permission.
RejectedForRead(r) ==
    /\ req[r].handler = "Filewrite" /\ pc[r] = "done"
    /\ calls[r][Len(calls[r])] = [fn |-> "HasPerm", arg |-> "PermDownload"]

\* C20, as stated: a write-open is never rejected for read access; with read
\* access requested on a backend without read+write support its transfer
\* carries the deferred operation-unsupported error; a write-only open by a
\* user without the download permission carries no deferred read error.
C20_NoDeferredErrorForWriteOnly ==
    \A r \in Requests :
      /\ ~RejectedForRead(r)
      /\ WriteOpened(r) =>
           /\ (req[r].Pflags.Read /\ ~loc[r].fs.openRW) =>
                ret[r].transfer.errForRead = "ErrSSHFxOpUnsupported"
           /\ (~req[r].Pflags.Read
                 /\ ~HasPerm("PermDownload", PathDir(req[r].Filepath))) =>
                ret[r].transfer.errForRead = "nil"

\* C20: a write-open is never rejected for read access.  The transfer it
\* returns carries the deferred permission error whenever the user lacks the
\* download permission on the parent, read access requested or not;
\* otherwise it carries the deferred operation-unsupported error when read
\* access was requested on a backend without read+write support, and no
\* deferred error in every other case.
C20_DeferredReadError ==
    \A r \in Requests :
      /\ ~RejectedForRead(r)
      /\ WriteOpened(r) =>
           ret[r].transfer.errForRead =
             IF ~HasPerm("PermDownload", PathDir(req[r].Filepath))
               THEN "ErrPermission"
             ELSE IF req[r].Pflags.Read /\ ~loc[r].fs.openRW
               THEN "ErrSSHFxOpUnsupported"
             ELSE "nil"

\* A write-only open by a user without the download permission returns a
\* transfer that carries the deferred permission error.
C20_Witness ==
    \E r \in Requests :
      /\ WriteOpened(r)
      /\ ~req[r].Pflags.Read
      /\ ~HasPerm("PermDownload", PathDir(req[r].Filepath))
      /\ ret[r].transfer.errForRead = "ErrPermission"

\* Remove request r has returned after asking lstat.
RemoveStatted(r) ==
    /\ req[r].handler = "Filecmd" /\ req[r].Method = "Remove"
    /\ pc[r] = "done"
    /\ Called(r, "Lstat")

\* C21: Remove calls the remove contract only when lstat of the resolved path
\* succeeded and the entry is not a plain directory.  A plain directory gives
\* generic failure with no remove call, an lstat error gives the mapped
\* backend error with no remove call, and a regular file or a symlink, one
\* that reports a directory included, is handed to the remove contract, whose
\* result is returned.
C21_RemoveContract ==
    \A r \in Requests :
      /\ (req[r].handler = "Filecmd" /\ req[r].Method = "Remove"
            /\ Called(r, "RemoveFile"))
           => /\ CalledBefore(r, "Lstat", "RemoveFile")
              /\ loc[r].statErr = "nil"
              /\ loc[r].stat.kind \in {"file", "symlink", "symlinkdir"}
      /\ RemoveStatted(r) =>
           CASE loc[r].statErr # "nil" ->
                  /\ ~Called(r, "RemoveFile")
                  /\ ret[r].err = (CASE loc[r].statErr = "ErrNotExist" -> "ErrSSHFxNoSuchFile"
                                     [] loc[r].statErr = "ErrPermission" -> "ErrSSHFxPermissionDenied"
                                     [] OTHER -> "ErrSSHFxFailure")
             [] loc[r].statErr = "nil" /\ loc[r].stat.kind = "dir" ->
                  /\ ~Called(r, "RemoveFile")
                  /\ ret[r].err = "ErrSSHFxFailure"
             [] OTHER ->
                  /\ Called(r, "RemoveFile")
                  /\ ret[r].err = loc[r].result

\* A symlink that reports a directory was handed to the remove contract.
C21_Witness ==
    \E r \in Requests :
      /\ RemoveStatted(r)
      /\ loc[r].stat = LinkToDir
      /\ LastCall(r) = "RemoveFile"
      /\ ret[r].err = "nil"

\* A plain directory was refused without a remove call.
C21_DirWitness ==
    \E r \in Requests :
      /\ RemoveStatted(r)
      /\ loc[r].stat.kind = "dir"
      /\ ret[r].err = "ErrSSHFxFailure"

\* StatVFS request r returned statistics made from the quota result.
Synthesized(r) ==
    /\ req[r].handler = "StatVFS"
    /\ pc[r] = "done" /\ ret[r].err = "nil"
    /\ loc[r].s # NoAvailableDiskSize

\* The size the statistics of r are made for: the quota limit, the backend's
\* total when there is no limit or the limit is above it, and the used size
\* plus the default when neither gives a size.
QuotaCeiling(r) ==
    LET q == loc[r].quotaResult
        total == loc[r].s.stats.Frsize * loc[r].s.stats.Blocks
        limit == IF loc[r].s.err = "nil" /\ (q.QuotaSize = 0 \/ q.QuotaSize > total)
                   THEN total ELSE q.QuotaSize
    IN  IF limit = 0 THEN q.UsedSize + DefaultQuotaSize ELSE limit

\* C22: in every synthesized response the block size is the largest of 4096,
\* 1024, 256, 64, 16, 4, 1 that does not exceed the quota ceiling, it is
\* never zero, the total blocks are the quota ceiling divided by the block
\* size, and the maximum filename length is 255.
C22_BlockSize ==
    \A r \in Requests :
      Synthesized(r) =>
        LET st == ret[r].statvfs
            ceiling == QuotaCeiling(r)
        IN  /\ st.Bsize \in {4096, 1024, 256, 64, 16, 4, 1}
            /\ st.Bsize # 0
            /\ st.Bsize <= ceiling
            /\ st.Bsize < 4096 => st.Bsize * 4 > ceiling
            /\ st.Frsize = st.Bsize
            /\ st.Blocks = ceiling \div st.Bsize
            /\ st.Namemax = 255

\* A backend that reports a total of 50 bytes replaces a limit of 5000: the
\* block size is 16 and there are three blocks.
C22_Witness ==
    \E r \in Requests :
      /\ Synthesized(r)
      /\ loc[r].quotaResult.QuotaSize = 5000
      /\ loc[r].s.err = "nil"
      /\ QuotaCeiling(r) = 50
      /\ ret[r].statvfs.Bsize = 16 /\ ret[r].statvfs.Blocks = 3

\* A backend that reports a total of zero leaves the default ceiling.
C22_ZeroTotalWitness ==
    \E r \in Requests :
      /\ Synthesized(r)
      /\ loc[r].s.err = "nil"
      /\ loc[r].s.stats.Blocks = 0
      /\ ret[r].statvfs.Bsize = 4096

\* C24, as stated: in every synthesized response the free blocks are at most
\* the total blocks and the free files at most the total files, also when the
\* backend's total replaces the limit and lies below what is used.
C24_FreeWithinTotal ==
    \A r \in Requests :
      Synthesized(r) =>
        /\ ret[r].statvfs.Bfree <= ret[r].statvfs.Blocks
        /\ ret[r].statvfs.Ffree <= ret[r].statvfs.Files

\* The same for the responses made without statistics of the backend.
C24_FreeWithinTotalOfQuota ==
    \A r \in Requests :
      (Synthesized(r) /\ loc[r].s.err # "nil") =>
        /\ ret[r].statvfs.Bfree <= ret[r].statvfs.Blocks
        /\ ret[r].statvfs.Ffree <= ret[r].statvfs.Files

\* Write-open r took the overwrite branch for the file lstat found and
\* returned an error.
OverwriteFailed(r) ==
    /\ req[r].handler = "Filewrite"
    /\ OverwriteGateEvaluated(r)
    /\ pc[r] = "done" /\ ret[r].err # "nil"

\* C23, as stated: a write-open on an existing file that returns an error
\* leaves the backend unchanged: the file is still at its resolved path as
\* lstat found it, also when atomic upload is active and the create fails
\* after the rename to the staging path.
C23_ErrorLeavesBackendUnchanged ==
    \A r \in Requests :
      OverwriteFailed(r) =>
        /\ files.resolved = loc[r].stat
        /\ files.staging = NoEntry

\* The same for the opens that did not rename the file to the staging path:
\* those refused before the rename, those whose rename failed, and those made
\* with atomic upload inactive.
C23_ErrorWithoutRename ==
    \A r \in Requests :
      (OverwriteFailed(r) /\ ~(Called(r, "Rename") /\ loc[r].result = "nil")) =>
        /\ files.resolved = loc[r].stat
        /\ files.staging = NoEntry

\* The create failed after the rename: the file is left at the staging path
\* and nothing is at the resolved path.
C23_LeftAtStaging ==
    \E r \in Requests :
      /\ OverwriteFailed(r)
      /\ CalledBefore(r, "Rename", "Create")
      /\ files.resolved = NoEntry
      /\ files.staging = loc[r].stat /\ loc[r].stat.kind = "file"

====
